---- MODULE Spec2Model ----
(***************************************************************************)
(* A model of the command-line countdown timer Mtn-Man/timer               *)
(* (src/main.go, the revision that starts at line 1298).                   *)
(*                                                                         *)
(* A string is a sequence of one-character strings, so that the code's     *)
(* byte tests (arg[0] == '-', arg[1], range arg[1:]) can be written as     *)
(* they are in the source.  A duration is a whole number of milliseconds.  *)
(***************************************************************************)
EXTENDS Integers, Sequences, FiniteSets, TLC

VARIABLES
    args,        \* parseInvocation: the argument list, program name first
    pc,          \* parseInvocation: "start", "scan" or "done" ("idle": not running)
    normalized,  \* parseInvocation: args after preprocessCombinedShortFlags
    idx,         \* parseInvocation: position of the next token of the scan loop
    locals,      \* parseInvocation: the locals of the scan loop
    result,      \* parseInvocation: the returned (invocation, error)
    call,        \* runTimerWithAlarmStarter: its arguments and runtime.GOOS
    state,       \* runTimerWithAlarmStarter: Starting, Counting, Completed, Cancelled
    ctxCause,    \* the cause the context was cancelled with, "none" while it is live
    now,         \* time since the call, in ms
    doneC,       \* done.C holds the deadline timer's value
    tickC,       \* ticker.C holds a tick
    nextTick,    \* when the ticker sends next
    output,      \* what was written to status.writer, write by write
    alarmCalls,  \* the calls of alarmStarter
    sleepInhibitor, \* the caffeinate process: "nil", "running" or "reaped"
    inhibitor,   \* what was done to caffeinate: Start, Kill and Wait calls
    ret,         \* the value returned: "pending", "nil" or the cancellation cause
    worker,      \* the alarm worker process the run spawned, "none" if it did not
    alarmAt,     \* the writes made before alarmStarter was called, -1 if it was not
    firedAtCancel, \* the deadline timer had fired when the context was cancelled
    alarm,       \* playAlarmAttempts: its arguments commands and attempts
    interval,    \* playAlarmAttempts: its argument interval, in ms
    commands,    \* playAlarmAttempts: the candidates that have not failed
    round,       \* playAlarmAttempts: i, the rounds that are over
    played,      \* playAlarmAttempts: the round has played a sound
    calls,       \* playAlarmAttempts: the calls of runner, with their results
    sleeps,      \* playAlarmAttempts: the calls of time.Sleep
    apc,         \* playAlarmAttempts: "entry", "for", "inner", "after", "returned"
    osArgs,      \* main: os.Args
    mpc,         \* main: "start", "worker", "parse", "timer" or "exited"
    exitCode,    \* main: the exit code of the process, -1 while it runs
    signals,     \* main: the signals os/signal relayed since signal.Notify, in order
    sigCh,       \* main: the signals sigCh holds, one at most
    forwarder,   \* main's goroutine: "none", "waiting", the signal it received, "done"
    tickRemaining, \* formatRemainingTime: the time remaining that a tick observed
    rendered     \* formatRemainingTime: the text returned, "none" before the call

parseVars == <<args, pc, normalized, idx, locals, result>>

timerVars == <<call, state, ctxCause, now, doneC, tickC, nextTick, output,
               alarmCalls, sleepInhibitor, inhibitor, ret, worker, alarmAt,
               firedAtCancel>>

alarmVars == <<alarm, interval, commands, round, played, calls, sleeps, apc>>

mainVars == <<osArgs, mpc, exitCode, signals, sigCh, forwarder>>

formatVars == <<tickRemaining, rendered>>

vars == <<parseVars, timerVars, alarmVars, mainVars, formatVars>>

(***************************************************************************)
(* Bounds of the model.                                                    *)
(***************************************************************************)
\* the most tokens that follow the program name
MaxArgs == 3

\* the most steps of TimeStep ms the clock of a timer run advances
MaxSteps == 4

\* the most candidates playAlarmAttempts is called with
MaxCommands == 3

\* the most attempts playAlarmAttempts is called with
MaxAttempts == 4

(***************************************************************************)
(* Characters and strings.                                                 *)
(***************************************************************************)
Digits == {"0", "1", "2", "3", "4", "5", "6", "7", "8", "9"}

DigitVal(c) ==
    CASE c = "0" -> 0 [] c = "1" -> 1 [] c = "2" -> 2 [] c = "3" -> 3
      [] c = "4" -> 4 [] c = "5" -> 5 [] c = "6" -> 6 [] c = "7" -> 7
      [] c = "8" -> 8 [] c = "9" -> 9

EmptyString == <<>>

(***************************************************************************)
(* time.ParseDuration, as parseDurationToken calls it: an optional sign,   *)
(* then one or more terms "digits, optional fraction, unit", with the      *)
(* special case "0".  Values are milliseconds: a unit is a pair            *)
(* <<mul, div>> giving its size mul/div in ms.                             *)
(***************************************************************************)
unitMap(u) ==
    CASE u = <<"n", "s">> -> <<1, 1000000>>
      [] u = <<"u", "s">> -> <<1, 1000>>
      [] u = <<"m", "s">> -> <<1, 1>>
      [] u = <<"s">>      -> <<1000, 1>>
      [] u = <<"m">>      -> <<60000, 1>>
      [] u = <<"h">>      -> <<3600000, 1>>
      [] OTHER            -> <<0, 0>>

RECURSIVE leadingInt(_, _)
leadingInt(s, v) ==
    IF s # <<>> /\ Head(s) \in Digits
    THEN leadingInt(Tail(s), v * 10 + DigitVal(Head(s)))
    ELSE <<v, s>>

RECURSIVE leadingFraction(_, _, _)
leadingFraction(s, f, scale) ==
    IF s # <<>> /\ Head(s) \in Digits
    THEN leadingFraction(Tail(s), f * 10 + DigitVal(Head(s)), scale * 10)
    ELSE <<f, scale, s>>

RECURSIVE unitLength(_)
unitLength(s) ==
    IF s = <<>> \/ Head(s) = "." \/ Head(s) \in Digits
    THEN 0
    ELSE 1 + unitLength(Tail(s))

DurationError == [ok |-> FALSE, d |-> 0]

\* the loop "for s != ''" of time.ParseDuration; d is the sum so far
RECURSIVE parseDurationTerms(_, _)
parseDurationTerms(s, d) ==
    IF s = <<>> THEN [ok |-> TRUE, d |-> d]
    ELSE IF ~(Head(s) = "." \/ Head(s) \in Digits) THEN DurationError
    ELSE
      LET li   == leadingInt(s, 0)
          v    == li[1]
          s1   == li[2]
          pre  == Len(s1) # Len(s)
          dot  == s1 # <<>> /\ Head(s1) = "."
          lf   == IF dot THEN leadingFraction(Tail(s1), 0, 1) ELSE <<0, 1, s1>>
          f    == lf[1]
          scale == lf[2]
          s2   == lf[3]
          post == dot /\ Len(s2) # Len(Tail(s1))
          n    == unitLength(s2)
          unit == unitMap(SubSeq(s2, 1, n))
      IN  IF ~pre /\ ~post THEN DurationError
          ELSE IF n = 0 THEN DurationError
          ELSE IF unit[2] = 0 THEN DurationError
          ELSE parseDurationTerms(
                   SubSeq(s2, n + 1, Len(s2)),
                   d + ((v * unit[1]) \div unit[2])
                     + ((f * unit[1]) \div (scale * unit[2])))

ParseDuration(s) ==
    LET signed == s # <<>> /\ Head(s) \in {"-", "+"}
        neg    == signed /\ Head(s) = "-"
        rest   == IF signed THEN Tail(s) ELSE s
    IN  IF rest = <<"0">> THEN [ok |-> TRUE, d |-> 0]
        ELSE IF rest = <<>> THEN DurationError
        ELSE LET r == parseDurationTerms(rest, 0)
             IN  IF ~r.ok THEN DurationError
                 ELSE IF neg THEN [ok |-> TRUE, d |-> 0 - r.d]
                 ELSE r

(***************************************************************************)
(* The flag catalog and the tokens the argument lists are built from.      *)
(***************************************************************************)
cliFlags ==
    << [short |-> <<"-", "h">>, long |-> <<"-", "-", "h", "e", "l", "p">>],
       [short |-> <<"-", "v">>, long |-> <<"-", "-", "v", "e", "r", "s", "i", "o", "n">>],
       [short |-> <<"-", "q">>, long |-> <<"-", "-", "q", "u", "i", "e", "t">>],
       [short |-> <<"-", "s">>, long |-> <<"-", "-", "s", "o", "u", "n", "d">>],
       [short |-> <<"-", "c">>,
        long  |-> <<"-", "-", "c", "a", "f", "f", "e", "i", "n", "a", "t", "e">>] >>

ProgramName == <<"t", "i", "m", "e", "r">>

DoubleDash == <<"-", "-">>

\* the tokens an argument list of the model is drawn from
Tokens ==
    { EmptyString,
      DoubleDash,
      <<"-", "h">>, <<"-", "-", "h", "e", "l", "p">>,
      <<"-", "v">>, <<"-", "-", "v", "e", "r", "s", "i", "o", "n">>,
      <<"-", "q">>, <<"-", "-", "q", "u", "i", "e", "t">>,
      <<"-", "s">>,
      <<"-", "c">>,
      <<"-", "q", "s">>,             \* a cluster of known short flags
      <<"-", "q", "x">>,             \* a cluster with an unknown letter
      <<"-", "-", "w", "a", "t">>,    \* an unknown long option
      <<"-", "1", "s">>,             \* a negative duration
      <<"-", "0">>,                  \* negative-looking, parses to zero
      <<"0", "s">>,
      <<"1", "s">>,
      <<"3", "0">>,                  \* a bare integer
      <<".", "5">>,                  \* a bare decimal
      <<"a", "b", "c">> }

RECURSIVE SeqsUpTo(_)
SeqsUpTo(n) ==
    IF n = 0 THEN {<<>>}
    ELSE LET shorter == SeqsUpTo(n - 1)
         IN  shorter \cup {Append(s, t) : s \in {x \in shorter : Len(x) = n - 1}, t \in Tokens}

\* the argument lists: none at all, or the program name and up to MaxArgs tokens
ArgLists == {<<>>} \cup {<<ProgramName>> \o s : s \in SeqsUpTo(MaxArgs)}

(***************************************************************************)
(* The invocation parser.                                                  *)
(***************************************************************************)
\* a variant whose digit range starts at '1'
isPotentialNegativeDuration_NoZero(arg) ==
    IF Len(arg) < 2 \/ arg[1] # "-" THEN FALSE
    ELSE (arg[2] \in Digits /\ arg[2] # "0") \/ arg[2] = "."

isPotentialNegativeDuration(arg) ==
    IF Len(arg) < 2 \/ arg[1] # "-" THEN FALSE
    ELSE arg[2] \in Digits \/ arg[2] = "."

knownShortFlagsSet(flags) ==
    { flags[i].short[2] :
        i \in {j \in 1..Len(flags) : Len(flags[j].short) = 2 /\ flags[j].short[1] = "-"} }

\* a variant that is content with one known letter
shouldExpandCombinedShortFlag_AnyKnown(arg, knownShortFlags) ==
    IF Len(arg) < 3 \/ arg[1] # "-" \/ arg[2] = "-" THEN FALSE
    ELSE IF isPotentialNegativeDuration(arg) THEN FALSE
    ELSE \E i \in 2..Len(arg) : arg[i] \in knownShortFlags

shouldExpandCombinedShortFlag(arg, knownShortFlags) ==
    IF Len(arg) < 3 \/ arg[1] # "-" \/ arg[2] = "-" THEN FALSE
    ELSE IF isPotentialNegativeDuration(arg) THEN FALSE
    ELSE \A i \in 2..Len(arg) : arg[i] \in knownShortFlags

\* the inner loop of preprocessCombinedShortFlags: "-xyz" becomes -x -y -z
expandCombinedShortFlag(arg) ==
    [i \in 1..(Len(arg) - 1) |-> <<"-", arg[i + 1]>>]

\* the loop of preprocessCombinedShortFlags over args[1:]
RECURSIVE preprocessLoop(_, _, _)
preprocessLoop(rest, seenDoubleDash, out) ==
    IF rest = <<>> THEN out
    ELSE LET arg == Head(rest)
         IN  IF ~seenDoubleDash /\ arg = DoubleDash
             THEN preprocessLoop(Tail(rest), TRUE, Append(out, arg))
             ELSE IF ~seenDoubleDash
                     /\ shouldExpandCombinedShortFlag(arg, knownShortFlagsSet(cliFlags))
             THEN preprocessLoop(Tail(rest), seenDoubleDash,
                                 out \o expandCombinedShortFlag(arg))
             ELSE preprocessLoop(Tail(rest), seenDoubleDash, Append(out, arg))

preprocessCombinedShortFlags(a) ==
    IF Len(a) <= 1 THEN a
    ELSE preprocessLoop(Tail(a), FALSE, <<a[1]>>)

errorResult(e, option) ==
    [mode |-> "modeRun", duration |-> 0, quiet |-> FALSE, forceAlarm |-> FALSE,
     forceAwake |-> FALSE, err |-> e, option |-> option]

parseDurationToken(token) ==
    LET r == ParseDuration(token)
    IN  IF ~r.ok THEN [d |-> 0, err |-> "errInvalidDuration"]
        ELSE IF r.d < 0 THEN [d |-> 0, err |-> "errDurationMustBeAtLeastZero"]
        ELSE [d |-> r.d, err |-> "nil"]

\* the locals of parseInvocation before its scan loop
initialLocals ==
    [hasHelp |-> FALSE, hasVersion |-> FALSE, seenDoubleDash |-> FALSE,
     firstUnknownOption |-> EmptyString, durationToken |-> EmptyString,
     quiet |-> FALSE, forceAlarm |-> FALSE, forceAwake |-> FALSE,
     returned |-> FALSE]

\* a variant in which the sound flag sets quiet
recogniseFlag_SoundSetsQuiet(st, arg) ==
    CASE arg \in {<<"-", "h">>, <<"-", "-", "h", "e", "l", "p">>} ->
           [matched |-> TRUE, st |-> [st EXCEPT !.hasHelp = TRUE]]
      [] arg \in {<<"-", "v">>, <<"-", "-", "v", "e", "r", "s", "i", "o", "n">>} ->
           [matched |-> TRUE, st |-> [st EXCEPT !.hasVersion = TRUE]]
      [] arg \in {<<"-", "q">>, <<"-", "-", "q", "u", "i", "e", "t">>,
                  <<"-", "s">>, <<"-", "-", "s", "o", "u", "n", "d">>} ->
           [matched |-> TRUE, st |-> [st EXCEPT !.quiet = TRUE]]
      [] arg \in {<<"-", "c">>,
                  <<"-", "-", "c", "a", "f", "f", "e", "i", "n", "a", "t", "e">>} ->
           [matched |-> TRUE, st |-> [st EXCEPT !.forceAwake = TRUE]]
      [] OTHER -> [matched |-> FALSE, st |-> st]

\* the switch of the scan loop; matched tells whether a case was taken
recogniseFlag(st, arg) ==
    CASE arg \in {<<"-", "h">>, <<"-", "-", "h", "e", "l", "p">>} ->
           [matched |-> TRUE, st |-> [st EXCEPT !.hasHelp = TRUE]]
      [] arg \in {<<"-", "v">>, <<"-", "-", "v", "e", "r", "s", "i", "o", "n">>} ->
           [matched |-> TRUE, st |-> [st EXCEPT !.hasVersion = TRUE]]
      [] arg \in {<<"-", "q">>, <<"-", "-", "q", "u", "i", "e", "t">>} ->
           [matched |-> TRUE, st |-> [st EXCEPT !.quiet = TRUE]]
      [] arg \in {<<"-", "s">>, <<"-", "-", "s", "o", "u", "n", "d">>} ->
           [matched |-> TRUE, st |-> [st EXCEPT !.forceAlarm = TRUE]]
      [] arg \in {<<"-", "c">>,
                  <<"-", "-", "c", "a", "f", "f", "e", "i", "n", "a", "t", "e">>} ->
           [matched |-> TRUE, st |-> [st EXCEPT !.forceAwake = TRUE]]
      [] OTHER -> [matched |-> FALSE, st |-> st]

\* a variant that keeps the last unknown option instead of the first
recordUnknownOption_KeepsLast(st, arg) ==
    [st EXCEPT !.firstUnknownOption = arg]

recordUnknownOption(st, arg) ==
    IF st.firstUnknownOption = EmptyString
    THEN [st EXCEPT !.firstUnknownOption = arg]
    ELSE st

\* the end of the loop body: a second duration token returns errUsage
captureDurationToken(st, arg) ==
    IF st.durationToken # EmptyString
    THEN [st EXCEPT !.returned = TRUE]
    ELSE [st EXCEPT !.durationToken = arg]

\* a variant that goes on recognising flags after the terminator
scanArg_FlagsAfterTerminator(st, arg) ==
    IF ~st.seenDoubleDash /\ arg = DoubleDash
    THEN [st EXCEPT !.seenDoubleDash = TRUE]
    ELSE IF recogniseFlag(st, arg).matched
    THEN recogniseFlag(st, arg).st
    ELSE IF ~st.seenDoubleDash
            /\ Len(arg) > 0 /\ arg[1] = "-" /\ ~isPotentialNegativeDuration(arg)
    THEN recordUnknownOption(st, arg)
    ELSE captureDurationToken(st, arg)

\* one iteration of the scan loop of parseInvocation
scanArg(st, arg) ==
    IF ~st.seenDoubleDash /\ arg = DoubleDash
    THEN [st EXCEPT !.seenDoubleDash = TRUE]
    ELSE IF ~st.seenDoubleDash /\ recogniseFlag(st, arg).matched
    THEN recogniseFlag(st, arg).st
    ELSE IF ~st.seenDoubleDash
            /\ Len(arg) > 0 /\ arg[1] = "-" /\ ~isPotentialNegativeDuration(arg)
    THEN recordUnknownOption(st, arg)
    ELSE captureDurationToken(st, arg)

\* a variant that drops the behaviour flags, as the help invocation does
versionInvocation_DropsFlags(st) ==
    [errorResult("nil", EmptyString) EXCEPT !.mode = "modeVersion"]

\* the invocation returned for the version flag
versionInvocation(st) ==
    [mode |-> "modeVersion", duration |-> 0, quiet |-> st.quiet,
     forceAlarm |-> st.forceAlarm, forceAwake |-> st.forceAwake,
     err |-> "nil", option |-> EmptyString]

\* a variant without the test for a missing duration token
resolveRun_NoMissingCheck(st) ==
    LET r == parseDurationToken(st.durationToken)
    IN  IF r.err # "nil" THEN errorResult(r.err, EmptyString)
        ELSE [mode |-> "modeRun", duration |-> r.d, quiet |-> st.quiet,
              forceAlarm |-> st.forceAlarm, forceAwake |-> st.forceAwake,
              err |-> "nil", option |-> EmptyString]

\* the end of parseInvocation: run mode needs a duration token that parses
resolveRun(st) ==
    IF st.durationToken = EmptyString
    THEN errorResult("errUsage", EmptyString)
    ELSE LET r == parseDurationToken(st.durationToken)
         IN  IF r.err # "nil" THEN errorResult(r.err, EmptyString)
             ELSE [mode |-> "modeRun", duration |-> r.d, quiet |-> st.quiet,
                   forceAlarm |-> st.forceAlarm, forceAwake |-> st.forceAwake,
                   err |-> "nil", option |-> EmptyString]

\* a variant that asks for the version flag first
resolveIntent_VersionFirst(st) ==
    IF st.hasVersion
    THEN versionInvocation(st)
    ELSE IF st.hasHelp
    THEN [errorResult("nil", EmptyString) EXCEPT !.mode = "modeHelp"]
    ELSE resolveRun(st)

\* help beats version, version beats run
resolveIntent(st) ==
    IF st.hasHelp
    THEN [errorResult("nil", EmptyString) EXCEPT !.mode = "modeHelp"]
    ELSE IF st.hasVersion
    THEN versionInvocation(st)
    ELSE resolveRun(st)

\* a variant in which help and version intent come before an unknown option
resolveInvocation_IntentFirst(st) ==
    IF st.hasHelp \/ st.hasVersion
    THEN resolveIntent(st)
    ELSE IF st.firstUnknownOption # EmptyString
    THEN errorResult("unknownOption", st.firstUnknownOption)
    ELSE resolveIntent(st)

\* parseInvocation after its scan loop
resolveInvocation(st) ==
    IF st.firstUnknownOption # EmptyString
    THEN errorResult("unknownOption", st.firstUnknownOption)
    ELSE resolveIntent(st)

\* the scan loop from token i of the normalized list on
RECURSIVE scanFrom(_, _, _)
scanFrom(norm, i, st) ==
    IF i > Len(norm) THEN resolveInvocation(st)
    ELSE LET next == scanArg(st, norm[i])
         IN  IF next.returned THEN errorResult("errUsage", EmptyString)
             ELSE scanFrom(norm, i + 1, next)

\* parseInvocation as a function of its argument list
parseInvocation(a) ==
    IF Len(a) <= 1 THEN errorResult("errUsage", EmptyString)
    ELSE scanFrom(preprocessCombinedShortFlags(a), 2, initialLocals)

(***************************************************************************)
(* parseInvocation as a state machine: one step for the length check and   *)
(* the preprocessing, one per iteration of the scan loop, one for the      *)
(* resolution after the loop.                                              *)
(***************************************************************************)
NoResult == errorResult("pending", EmptyString)

\* no countdown is rendered on its own
FormatIdle ==
    /\ tickRemaining = [sign |-> 1, h |-> 0, ms |-> 0, ns |-> 0]
    /\ rendered = "none"

\* no process runs while a function is examined on its own
MainIdle ==
    /\ osArgs = <<>>
    /\ mpc = "idle"
    /\ exitCode = -1
    /\ signals = <<>>
    /\ sigCh = <<>>
    /\ forwarder = "none"

\* no alarm worker plays while the parser or the timer is examined
AlarmIdle ==
    /\ alarm = [commands |-> <<>>, attempts |-> 0]
    /\ interval = 0
    /\ commands = <<>>
    /\ round = 0
    /\ played = FALSE
    /\ calls = <<>>
    /\ sleeps = 0
    /\ apc = "idle"

\* no timer runs while the parser is examined
TimerIdle ==
    /\ call = [duration |-> 0,
               status |-> [interactive |-> FALSE, supportsAdvanced |-> FALSE],
               sideEffectsInteractive |-> FALSE, quiet |-> FALSE,
               forceAlarm |-> FALSE, forceAwake |-> FALSE, goos |-> "linux"]
    /\ state = "idle"
    /\ ctxCause = "none"
    /\ now = 0
    /\ doneC = FALSE
    /\ tickC = FALSE
    /\ nextTick = 0
    /\ output = <<>>
    /\ alarmCalls = 0
    /\ sleepInhibitor = "nil"
    /\ inhibitor = [starts |-> 0, kills |-> 0, waits |-> 0]
    /\ ret = "pending"
    /\ worker = "none"
    /\ alarmAt = -1
    /\ firedAtCancel = FALSE

ParseInit ==
    /\ TimerIdle
    /\ AlarmIdle
    /\ MainIdle
    /\ FormatIdle
    /\ args \in ArgLists
    /\ pc = "start"
    /\ normalized = <<>>
    /\ idx = 0
    /\ locals = initialLocals
    /\ result = NoResult

ParseBegin ==
    /\ pc = "start"
    /\ IF Len(args) <= 1
       THEN /\ pc' = "done"
            /\ result' = errorResult("errUsage", EmptyString)
            /\ UNCHANGED <<normalized, idx>>
       ELSE /\ pc' = "scan"
            /\ normalized' = preprocessCombinedShortFlags(args)
            /\ idx' = 2
            /\ UNCHANGED result
    /\ UNCHANGED <<args, locals>>
    /\ UNCHANGED <<timerVars, alarmVars, mainVars, formatVars>>

ParseScanArg ==
    /\ pc = "scan"
    /\ idx <= Len(normalized)
    /\ locals' = scanArg(locals, normalized[idx])
    /\ IF locals'.returned
       THEN /\ pc' = "done"
            /\ result' = errorResult("errUsage", EmptyString)
            /\ UNCHANGED idx
       ELSE /\ idx' = idx + 1
            /\ UNCHANGED <<pc, result>>
    /\ UNCHANGED <<args, normalized>>
    /\ UNCHANGED <<timerVars, alarmVars, mainVars, formatVars>>

ParseResolve ==
    /\ pc = "scan"
    /\ idx > Len(normalized)
    /\ pc' = "done"
    /\ result' = resolveInvocation(locals)
    /\ UNCHANGED <<args, normalized, idx, locals>>
    /\ UNCHANGED <<timerVars, alarmVars, mainVars, formatVars>>

ParseNext == ParseBegin \/ ParseScanArg \/ ParseResolve

SpecParse == ParseInit /\ [][ParseNext]_vars

(***************************************************************************)
(* The timer: runTimerWithAlarmStarter.  Time is in ms and advances in     *)
(* steps of TimeStep; the deadline timer and the ticker send on their      *)
(* channels once their time has come, and the select of the loop takes     *)
(* any case that is ready.                                                 *)
(***************************************************************************)
Second == 1000

\* the period of the redraw ticker
TickInterval == 500

TimeStep == TickInterval \div 2

MaxTime == MaxSteps * TimeStep

\* %02d: a minus sign counts for the width
Pad2(n) == IF 0 <= n /\ n < 10 THEN "0" \o ToString(n) ELSE ToString(n)

(***************************************************************************)
(* A time.Duration is an int64 of nanoseconds, which has values beyond the *)
(* integers of TLC.  Where the width matters it is written as a sign and a *)
(* magnitude of h hours, ms milliseconds below the hour and ns nanoseconds *)
(* below the millisecond.                                                  *)
(***************************************************************************)
HourMs == 3600 * Second

NsPerMs == 1000 * 1000

\* the Duration of n milliseconds, n not negative
Milliseconds(n) == [sign |-> 1, h |-> n \div HourMs, ms |-> n % HourMs, ns |-> 0]

\* 2^63 - 1 nanoseconds, 2562047h47m16.854775807s
MaxInt64 == [h |-> 2562047, ms |-> 2836854, ns |-> 775807]

\* 2^64 nanoseconds
TwoTo64 == [h |-> 5124095, ms |-> 2073709, ns |-> 551616]

MagLess(a, b) ==
    \/ a.h < b.h
    \/ a.h = b.h /\ a.ms < b.ms
    \/ a.h = b.h /\ a.ms = b.ms /\ a.ns < b.ns

\* the sum of two magnitudes, with its carries
MagAdd(a, b) ==
    LET ns == a.ns + b.ns
        ms == a.ms + b.ms + ns \div NsPerMs
    IN  [h |-> a.h + b.h + ms \div HourMs, ms |-> ms % HourMs, ns |-> ns % NsPerMs]

\* the difference of two magnitudes, b not above a, with its borrows
MagSub(a, b) ==
    LET ns == a.ns - b.ns
        ms == a.ms - b.ms - (IF ns < 0 THEN 1 ELSE 0)
    IN  [h |-> a.h - b.h - (IF ms < 0 THEN 1 ELSE 0),
         ms |-> IF ms < 0 THEN ms + HourMs ELSE ms,
         ns |-> IF ns < 0 THEN ns + NsPerMs ELSE ns]

\* the sum of two int64 that are not negative: a sum above 2^63 - 1 wraps
\* around to the negative number 2^64 below it
addInt64(a, b) ==
    LET sum == MagAdd(a, b)
        mag == IF MagLess(MaxInt64, sum) THEN MagSub(TwoTo64, sum) ELSE sum
    IN  [sign |-> IF MagLess(MaxInt64, sum) THEN -1 ELSE 1,
         h |-> mag.h, ms |-> mag.ms, ns |-> mag.ns]

\* time.Second - 1
SecondMinusOne == [sign |-> 1, h |-> 0, ms |-> Second - 1, ns |-> NsPerMs - 1]

\* remaining is positive.  The quotient by time.Second truncates toward zero,
\* so totalSeconds is sign * (3600 * h + secs), secs being the whole seconds
\* of the magnitude below the hour; / and % of Go keep the sign, so that
\* totalSeconds / 3600 is sign * h and totalSeconds % 3600 is sign * secs.
formatRemainingTime(remaining) ==
    LET sum == addInt64(remaining, SecondMinusOne)
        secs == sum.ms \div Second
        h == sum.sign * sum.h
        m == sum.sign * (secs \div 60)
        sec == sum.sign * (secs % 60)
    IN  Pad2(h) \o ":" \o Pad2(m) \o ":" \o Pad2(sec)

\* the digits of a fraction of f ms of a second, without trailing zeros
FractionDigits(f) ==
    IF f % 100 = 0 THEN ToString(f \div 100)
    ELSE IF f % 10 = 0 THEN Pad2(f \div 10)
    ELSE ToString(f \div 100) \o Pad2(f % 100)

\* time.Duration's String method, which %s of the started line uses
DurationString(d) ==
    IF d = 0 THEN "0s"
    ELSE IF d < Second THEN ToString(d) \o "ms"
    ELSE LET h == d \div (3600 * Second)
             m == (d \div (60 * Second)) % 60
             sec == (d \div Second) % 60
             f == d % Second
             secs == ToString(sec)
                       \o (IF f = 0 THEN "" ELSE "." \o FractionDigits(f)) \o "s"
         IN  IF h > 0 THEN ToString(h) \o "h" \o ToString(m) \o "m" \o secs
             ELSE IF m > 0 THEN ToString(m) \o "m" \o secs
             ELSE secs

\* a variant that prints the started line in quiet mode too
shouldPrintLifecycleStart_IgnoresQuiet(interactive, quiet) == ~interactive

shouldPrintLifecycleStart(interactive, quiet) == ~interactive /\ ~quiet

\* a variant that does not ask for the platform
shouldStartSleepInhibitor_AnyPlatform(goos, stdoutInteractive, statusInteractive, forceAwake) ==
    (stdoutInteractive /\ statusInteractive) \/ forceAwake

shouldStartSleepInhibitor(goos, stdoutInteractive, statusInteractive, forceAwake) ==
    goos = "darwin" /\ ((stdoutInteractive /\ statusInteractive) \/ forceAwake)

shouldTriggerAlarm(sideEffectsInteractive, quiet, forceAlarm) ==
    forceAlarm \/ (sideEffectsInteractive /\ ~quiet)

\* a variant that asks for the data stream only
bothStreamsInteractive_StdoutOnly(c) == c.sideEffectsInteractive

\* the first line of runTimerWithAlarmStarter
bothStreamsInteractive(c) == c.sideEffectsInteractive /\ c.status.interactive

\* a variant that clears the line of a non-interactive stream too
clearInteractiveStatusLine_Always(status) ==
    IF status.supportsAdvanced THEN << "\\r\\033[K" >> ELSE << "\\r" >>

\* the writes of clearInteractiveStatusLine
clearInteractiveStatusLine(status) ==
    IF ~status.interactive THEN <<>>
    ELSE IF status.supportsAdvanced THEN << "\\r\\033[K" >>
    ELSE << "\\r" >>

\* the writes of printComplete
printComplete(status, quiet) ==
    IF quiet THEN clearInteractiveStatusLine(status)
    ELSE IF status.interactive
    THEN clearInteractiveStatusLine(status) \o << "timer complete\\n" >>
    ELSE << "timer: complete\\n" >>

\* a variant that writes the lifecycle line to an interactive stream too
printCancelled_AlwaysLifecycle(status, quiet) ==
    IF quiet THEN clearInteractiveStatusLine(status)
    ELSE clearInteractiveStatusLine(status) \o << "timer: cancelled\\n" >>

\* the writes of printCancelled
printCancelled(status, quiet) ==
    IF quiet THEN clearInteractiveStatusLine(status)
    ELSE IF status.interactive
    THEN clearInteractiveStatusLine(status) \o << "timer cancelled\\n" >>
    ELSE << "timer: cancelled\\n" >>

\* a variant that updates the title in quiet mode too
renderInteractiveCountdown_TitleInQuiet(status, timeStr, quiet) ==
    IF status.supportsAdvanced
    THEN << "\\033]0;" \o timeStr \o "\\007\\r\\033[K" \o timeStr >>
    ELSE << "\\r" \o timeStr >>

\* the write of renderInteractiveCountdown
renderInteractiveCountdown(status, timeStr, quiet) ==
    IF status.supportsAdvanced
    THEN IF quiet
         THEN << "\\r\\033[K" \o timeStr >>
         ELSE << "\\033]0;" \o timeStr \o "\\007\\r\\033[K" \o timeStr >>
    ELSE << "\\r" \o timeStr >>

\* a variant that returns without ending the sleep inhibitor
stopSleepInhibitor_Leaks == UNCHANGED <<sleepInhibitor, inhibitor>>

\* the deferred function that ends the sleep inhibitor, if one was started
stopSleepInhibitor ==
    IF sleepInhibitor = "running"
    THEN /\ sleepInhibitor' = "reaped"
         /\ inhibitor' = [inhibitor EXCEPT !.kills = @ + 1, !.waits = @ + 1]
    ELSE UNCHANGED <<sleepInhibitor, inhibitor>>

Booleans == {TRUE, FALSE}

\* the candidates of a platform, by name, in the order they are tried
alarmCandidatesForGOOS(goos) ==
    CASE goos = "darwin" -> << "afplay" >>
      [] goos = "linux" -> << "canberra-gtk-play", "timeout" >>
      [] goos = "freebsd" -> << "beep", "canberra-gtk-play" >>
      [] goos \in {"openbsd", "netbsd"} -> << "beep" >>
      [] OTHER -> <<>>

\* the names alarmCandidatesForGOOS knows
BackendNames == {"afplay", "canberra-gtk-play", "timeout", "beep"}

\* the candidates exec.LookPath finds, found being the names it finds
resolveAlarmCommands(goos, found) ==
    SelectSeq(alarmCandidatesForGOOS(goos), LAMBDA name : name \in found)

\* startAlarmProcess: os.Executable can fail, and so can Start, whose error is
\* dropped; the process that was started is not waited for
startAlarmProcess ==
    \E exeErr \in Booleans, startErr \in Booleans :
        worker' = IF exeErr THEN "noExecutable"
                  ELSE IF startErr THEN "startFailed"
                  ELSE "running"

Calls ==
    [duration : {k * TimeStep : k \in 0..MaxSteps},
     status : [interactive : Booleans, supportsAdvanced : Booleans],
     sideEffectsInteractive : Booleans,
     quiet : Booleans,
     forceAlarm : Booleans,
     forceAwake : Booleans,
     goos : {"darwin", "linux"}]

\* the causes the signal goroutine of main cancels the context with
Causes == {"SIGINT", "SIGTERM"}

\* An error value, from its outermost layer to its innermost: a signalCause
\* carries its signal, fmt.Errorf("...%w") wraps the error below it, and
\* context.Canceled is the cause of a context cancelled with cancel(nil).
ErrorChain(err) ==
    CASE err = "SIGINT"  -> << [type |-> "signalCause", sig |-> "SIGINT"] >>
      [] err = "SIGTERM" -> << [type |-> "signalCause", sig |-> "SIGTERM"] >>
      [] err = "SIGHUP"  -> << [type |-> "signalCause", sig |-> "SIGHUP"] >>
      [] err = "wrapped: SIGTERM" ->
             << [type |-> "wrapError", sig |-> ""],
                [type |-> "signalCause", sig |-> "SIGTERM"] >>
      [] err = "wrapped: SIGINT" ->
             << [type |-> "wrapError", sig |-> ""],
                [type |-> "signalCause", sig |-> "SIGINT"] >>
      [] OTHER -> << [type |-> "errorString", sig |-> ""] >>

\* the causes a caller's context can carry when runTimer is entered
CallerCauses ==
    Causes \cup {"SIGHUP", "wrapped: SIGTERM", "wrapped: SIGINT", "context.Canceled"}

\* a variant that looks at the outermost error only, as a type assertion does
errorsAsSignalCause_Outermost(err) ==
    LET chain == ErrorChain(err)
    IN  IF chain[1].type = "signalCause"
        THEN [ok |-> TRUE, sig |-> chain[1].sig]
        ELSE [ok |-> FALSE, sig |-> ""]

\* errors.As(err, &cause): the first signalCause of the chain, if any
errorsAsSignalCause(err) ==
    LET chain == ErrorChain(err)
        hits  == {i \in 1..Len(chain) : chain[i].type = "signalCause"}
    IN  IF hits = {} THEN [ok |-> FALSE, sig |-> ""]
        ELSE [ok |-> TRUE,
              sig |-> chain[CHOOSE i \in hits : \A j \in hits : i <= j].sig]

exitCodeForCancelError(err) ==
    LET cause == errorsAsSignalCause(err)
    IN  IF cause.ok /\ cause.sig = "SIGINT" THEN 130
        ELSE IF cause.ok /\ cause.sig = "SIGTERM" THEN 143
        ELSE 130

\* the exit status of main once runTimer has returned
ExitCode ==
    IF ret \in {"pending", "nil"} THEN 0 ELSE exitCodeForCancelError(ret)

\* no parse runs while the timer is examined
ParseIdle ==
    /\ args = <<>>
    /\ pc = "idle"
    /\ normalized = <<>>
    /\ idx = 0
    /\ locals = initialLocals
    /\ result = NoResult

\* the call of runTimerWithAlarmStarter, with a context that is live or
\* already cancelled
TimerInit ==
    /\ ParseIdle
    /\ AlarmIdle
    /\ MainIdle
    /\ FormatIdle
    /\ worker = "none"
    /\ alarmAt = -1
    /\ firedAtCancel = FALSE
    /\ call \in Calls
    /\ state = "Starting"
    /\ ctxCause \in {"none"} \cup CallerCauses
    /\ now = 0
    /\ doneC = FALSE
    /\ tickC = FALSE
    /\ nextTick = 0
    /\ output = <<>>
    /\ alarmCalls = 0
    /\ sleepInhibitor = "nil"
    /\ inhibitor = [starts |-> 0, kills |-> 0, waits |-> 0]
    /\ ret = "pending"

\* a variant that reports an inhibitor that did not start on the status stream
TimerEntry_ReportsStartFailure ==
    /\ state = "Starting"
    /\ state' = "Counting"
    /\ \E started \in Booleans :
          /\ IF shouldStartSleepInhibitor(call.goos, call.sideEffectsInteractive,
                                          call.status.interactive, call.forceAwake)
             THEN /\ inhibitor' = [inhibitor EXCEPT !.starts = @ + 1]
                  /\ sleepInhibitor' = IF started THEN "running" ELSE "nil"
             ELSE UNCHANGED <<sleepInhibitor, inhibitor>>
          /\ output' =
               (IF shouldStartSleepInhibitor(call.goos, call.sideEffectsInteractive,
                                             call.status.interactive, call.forceAwake)
                   /\ ~started
                THEN << "timer: caffeinate did not start\\n" >> ELSE <<>>)
               \o (IF shouldPrintLifecycleStart(call.status.interactive, call.quiet)
                      /\ ctxCause = "none"
                   THEN << "timer: started (" \o DurationString(call.duration) \o ")\\n" >>
                   ELSE <<>>)
    /\ nextTick' = IF call.status.interactive THEN now + TickInterval ELSE nextTick
    /\ UNCHANGED <<call, ctxCause, now, doneC, tickC, alarmCalls, ret>>
    /\ UNCHANGED <<parseVars, alarmVars, mainVars, formatVars, worker, alarmAt, firedAtCancel>>

\* the function up to its loop: the sleep inhibitor, whose Start succeeds or
\* fails, the deadline, the started line, the ticker
TimerEntry ==
    /\ state = "Starting"
    /\ state' = "Counting"
    /\ IF shouldStartSleepInhibitor(call.goos, call.sideEffectsInteractive,
                                    call.status.interactive, call.forceAwake)
       THEN /\ inhibitor' = [inhibitor EXCEPT !.starts = @ + 1]
            /\ sleepInhibitor' \in {"running", "nil"}
       ELSE UNCHANGED <<sleepInhibitor, inhibitor>>
    /\ output' = IF shouldPrintLifecycleStart(call.status.interactive, call.quiet)
                    /\ ctxCause = "none"
                 THEN Append(output,
                             "timer: started (" \o DurationString(call.duration) \o ")\\n")
                 ELSE output
    /\ nextTick' = IF call.status.interactive THEN now + TickInterval ELSE nextTick
    /\ UNCHANGED <<call, ctxCause, now, doneC, tickC, alarmCalls, ret>>
    /\ UNCHANGED <<parseVars, alarmVars, mainVars, formatVars, worker, alarmAt, firedAtCancel>>

\* a signal arrives and the signal goroutine of main cancels the context
CancelContext ==
    /\ state = "Counting"
    /\ ctxCause = "none"
    /\ ctxCause' \in Causes
    /\ firedAtCancel' = doneC
    /\ UNCHANGED <<call, state, now, doneC, tickC, nextTick, output, alarmCalls,
                   sleepInhibitor, inhibitor, ret>>
    /\ UNCHANGED <<parseVars, alarmVars, mainVars, formatVars, worker, alarmAt>>

\* time passes
AdvanceTime ==
    /\ state = "Counting"
    /\ now < MaxTime
    /\ now' = now + TimeStep
    /\ UNCHANGED <<call, state, ctxCause, doneC, tickC, nextTick, output, alarmCalls,
                   sleepInhibitor, inhibitor, ret>>
    /\ UNCHANGED <<parseVars, alarmVars, mainVars, formatVars, worker, alarmAt, firedAtCancel>>

\* the deadline timer fires, once, when the duration has passed
DeadlineFires ==
    /\ state = "Counting"
    /\ ~doneC
    /\ now >= call.duration
    /\ doneC' = TRUE
    /\ UNCHANGED <<call, state, ctxCause, now, tickC, nextTick, output, alarmCalls,
                   sleepInhibitor, inhibitor, ret>>
    /\ UNCHANGED <<parseVars, alarmVars, mainVars, formatVars, worker, alarmAt, firedAtCancel>>

\* a variant with a ticker on every status stream
TickerFires_Always ==
    /\ state = "Counting"
    /\ now >= nextTick
    /\ tickC' = TRUE
    /\ nextTick' = nextTick + TickInterval
    /\ UNCHANGED <<call, state, ctxCause, now, doneC, output, alarmCalls,
                   sleepInhibitor, inhibitor, ret>>
    /\ UNCHANGED <<parseVars, alarmVars, mainVars, formatVars, worker, alarmAt, firedAtCancel>>

\* the ticker sends a tick; its channel holds one, a further one is dropped
TickerFires ==
    /\ state = "Counting"
    /\ call.status.interactive
    /\ now >= nextTick
    /\ tickC' = TRUE
    /\ nextTick' = nextTick + TickInterval
    /\ UNCHANGED <<call, state, ctxCause, now, doneC, output, alarmCalls,
                   sleepInhibitor, inhibitor, ret>>
    /\ UNCHANGED <<parseVars, alarmVars, mainVars, formatVars, worker, alarmAt, firedAtCancel>>

\* a variant that observes the cancellation after the completion too
SelectCancelled_AfterCompletion ==
    /\ state \in {"Counting", "Completed"}
    /\ ctxCause # "none"
    /\ output' = output \o printCancelled(call.status, call.quiet)
    /\ ret' = ctxCause
    /\ state' = "Cancelled"
    /\ stopSleepInhibitor
    /\ UNCHANGED <<call, ctxCause, now, doneC, tickC, nextTick, alarmCalls>>
    /\ UNCHANGED <<parseVars, alarmVars, mainVars, formatVars, worker, alarmAt, firedAtCancel>>

\* a variant that returns ctx.Err() in place of the cause
SelectCancelled_ReturnsErr ==
    /\ state = "Counting"
    /\ ctxCause # "none"
    /\ output' = output \o printCancelled(call.status, call.quiet)
    /\ ret' = "context.Canceled"
    /\ state' = "Cancelled"
    /\ stopSleepInhibitor
    /\ UNCHANGED <<call, ctxCause, now, doneC, tickC, nextTick, alarmCalls>>
    /\ UNCHANGED <<parseVars, alarmVars, mainVars, formatVars, worker, alarmAt, firedAtCancel>>

\* case <-ctx.Done()
SelectCancelled ==
    /\ state = "Counting"
    /\ ctxCause # "none"
    /\ output' = output \o printCancelled(call.status, call.quiet)
    /\ ret' = ctxCause
    /\ state' = "Cancelled"
    /\ stopSleepInhibitor
    /\ UNCHANGED <<call, ctxCause, now, doneC, tickC, nextTick, alarmCalls>>
    /\ UNCHANGED <<parseVars, alarmVars, mainVars, formatVars, worker, alarmAt, firedAtCancel>>

\* a variant that returns an error when the alarm worker was not started
SelectDone_AlarmFailureFails ==
    /\ state = "Counting"
    /\ doneC
    /\ doneC' = FALSE
    /\ output' = output \o printComplete(call.status, call.quiet)
    /\ IF shouldTriggerAlarm(bothStreamsInteractive(call), call.quiet, call.forceAlarm)
       THEN /\ alarmCalls' = alarmCalls + 1
            /\ alarmAt' = Len(output')
            /\ startAlarmProcess
            /\ ret' = IF worker' = "running" THEN "nil" ELSE "alarm: not started"
       ELSE /\ UNCHANGED <<alarmCalls, worker, alarmAt>>
            /\ ret' = "nil"
    /\ state' = "Completed"
    /\ stopSleepInhibitor
    /\ UNCHANGED <<call, ctxCause, now, tickC, nextTick, firedAtCancel>>
    /\ UNCHANGED <<parseVars, alarmVars, mainVars, formatVars>>

\* a variant of a select that takes the deadline only if no cancellation is ready
SelectDone_CancelFirst ==
    /\ state = "Counting"
    /\ doneC
    /\ ctxCause = "none"
    /\ doneC' = FALSE
    /\ output' = output \o printComplete(call.status, call.quiet)
    /\ IF shouldTriggerAlarm(bothStreamsInteractive(call), call.quiet, call.forceAlarm)
       THEN /\ alarmCalls' = alarmCalls + 1
            /\ alarmAt' = Len(output')
            /\ startAlarmProcess
       ELSE UNCHANGED <<alarmCalls, worker, alarmAt>>
    /\ ret' = "nil"
    /\ state' = "Completed"
    /\ stopSleepInhibitor
    /\ UNCHANGED <<call, ctxCause, now, tickC, nextTick, firedAtCancel>>
    /\ UNCHANGED <<parseVars, alarmVars, mainVars, formatVars>>

\* a variant that calls alarmStarter before it writes the completion text
SelectDone_AlarmFirst ==
    /\ state = "Counting"
    /\ doneC
    /\ doneC' = FALSE
    /\ IF shouldTriggerAlarm(bothStreamsInteractive(call), call.quiet, call.forceAlarm)
       THEN /\ alarmCalls' = alarmCalls + 1
            /\ alarmAt' = Len(output)
            /\ startAlarmProcess
       ELSE UNCHANGED <<alarmCalls, worker, alarmAt>>
    /\ output' = output \o printComplete(call.status, call.quiet)
    /\ ret' = "nil"
    /\ state' = "Completed"
    /\ stopSleepInhibitor
    /\ UNCHANGED <<call, ctxCause, now, tickC, nextTick, firedAtCancel>>
    /\ UNCHANGED <<parseVars, alarmVars, mainVars, formatVars>>

\* case <-done.C
SelectDone ==
    /\ state = "Counting"
    /\ doneC
    /\ doneC' = FALSE
    /\ output' = output \o printComplete(call.status, call.quiet)
    /\ IF shouldTriggerAlarm(bothStreamsInteractive(call), call.quiet, call.forceAlarm)
       THEN /\ alarmCalls' = alarmCalls + 1
            /\ alarmAt' = Len(output')
            /\ startAlarmProcess
       ELSE UNCHANGED <<alarmCalls, worker, alarmAt>>
    /\ ret' = "nil"
    /\ state' = "Completed"
    /\ stopSleepInhibitor
    /\ UNCHANGED <<call, ctxCause, now, tickC, nextTick, firedAtCancel>>
    /\ UNCHANGED <<parseVars, alarmVars, mainVars, formatVars>>

\* a variant in which a tick that finds no time remaining completes the run
SelectTick_CompletesAtZero ==
    /\ state = "Counting"
    /\ tickC
    /\ tickC' = FALSE
    /\ IF call.duration - now <= 0
       THEN /\ output' = output \o printComplete(call.status, call.quiet)
            /\ ret' = "nil"
            /\ state' = "Completed"
            /\ stopSleepInhibitor
       ELSE /\ output' = output \o renderInteractiveCountdown(
                             call.status,
                             formatRemainingTime(Milliseconds(call.duration - now)), call.quiet)
            /\ UNCHANGED <<state, sleepInhibitor, inhibitor, ret>>
    /\ UNCHANGED <<call, ctxCause, now, doneC, nextTick, alarmCalls>>
    /\ UNCHANGED <<parseVars, alarmVars, mainVars, formatVars, worker, alarmAt, firedAtCancel>>

\* case <-tickC
SelectTick ==
    /\ state = "Counting"
    /\ tickC
    /\ tickC' = FALSE
    /\ output' = IF ~call.status.interactive THEN output
                 ELSE LET remaining == call.duration - now
                      IN  IF remaining <= 0 THEN output
                          ELSE output \o renderInteractiveCountdown(
                                   call.status, formatRemainingTime(Milliseconds(remaining)), call.quiet)
    /\ UNCHANGED <<call, state, ctxCause, now, doneC, nextTick, alarmCalls,
                   sleepInhibitor, inhibitor, ret>>
    /\ UNCHANGED <<parseVars, alarmVars, mainVars, formatVars, worker, alarmAt, firedAtCancel>>

\* the worker process, on its own: runAlarmWorker finds no backend, or none
\* that runs, or plays, and the process ends
WorkerExits ==
    /\ worker = "running"
    /\ \E resolved \in {resolveAlarmCommands(call.goos, found) :
                             found \in SUBSET BackendNames} :
          worker' \in IF resolved = <<>>
                      THEN {"exitedNoBackend"}
                      ELSE {"exitedAllFailed", "exitedPlayed"}
    /\ UNCHANGED <<call, state, ctxCause, now, doneC, tickC, nextTick, output,
                   alarmCalls, sleepInhibitor, inhibitor, ret, alarmAt, firedAtCancel>>
    /\ UNCHANGED <<parseVars, alarmVars, mainVars, formatVars>>

TimerNext ==
    \/ TimerEntry
    \/ CancelContext
    \/ AdvanceTime
    \/ DeadlineFires
    \/ TickerFires
    \/ SelectCancelled
    \/ SelectDone
    \/ SelectTick
    \/ WorkerExits

SpecTimer == TimerInit /\ [][TimerNext]_vars

\* the run under a scheduler that lets it proceed: the function reaches its
\* loop, time passes, the deadline timer fires once the duration has passed,
\* and a select with the timer's value ready is not passed over for ever (a
\* tick is ready at most once a period, a ready cancellation ends the run)
SpecTimerFair ==
    /\ SpecTimer
    /\ WF_vars(TimerEntry)
    /\ WF_vars(AdvanceTime)
    /\ WF_vars(DeadlineFires)
    /\ WF_vars(SelectDone)


(***************************************************************************)
(* playAlarmAttempts, the loop of the alarm worker.  A candidate is its    *)
(* name; the lists alarmCandidatesForGOOS returns name no backend twice.   *)
(* A call of runner is recorded with its result, err being TRUE when it    *)
(* returned an error.                                                      *)
(***************************************************************************)
RECURSIVE CommandListsUpTo(_)
CommandListsUpTo(n) ==
    IF n = 0 THEN {<<>>}
    ELSE LET shorter == CommandListsUpTo(n - 1)
             longest == {x \in shorter : Len(x) = n - 1}
         IN  shorter \cup
             UNION {{Append(s, t) : t \in BackendNames \ {s[k] : k \in 1..Len(s)}}
                    : s \in longest}

\* the calls of playAlarmAttempts: a list of candidates and a number of
\* attempts, which need not be positive
AlarmCalls ==
    [commands : CommandListsUpTo(MaxCommands), attempts : (-1)..MaxAttempts]

\* runAlarmWorker's arguments: 4 attempts, 100 ms between them
WorkerAttempts == 4

WorkerInterval == 100

\* the pauses playAlarmAttempts is called with
AlarmIntervals == {0, WorkerInterval}

\* a variant that drops the candidate after the one named, if there is one
removeCommand_Next(cmds, at) ==
    IF at + 2 <= Len(cmds)
    THEN SubSeq(cmds, 1, at + 1) \o SubSeq(cmds, at + 3, Len(cmds))
    ELSE SubSeq(cmds, 1, at)

\* append(commands[:idx], commands[idx+1:]...), the position counted from 0
removeCommand(cmds, at) ==
    SubSeq(cmds, 1, at) \o SubSeq(cmds, at + 2, Len(cmds))

AlarmInit ==
    /\ ParseIdle
    /\ TimerIdle
    /\ MainIdle
    /\ FormatIdle
    /\ alarm \in AlarmCalls
    /\ interval \in AlarmIntervals
    /\ commands = alarm.commands
    /\ round = 0
    /\ played = FALSE
    /\ calls = <<>>
    /\ sleeps = 0
    /\ apc = "entry"

\* if len(commands) == 0 { return }
PlayEntry ==
    /\ apc = "entry"
    /\ apc' = IF Len(commands) = 0 THEN "returned" ELSE "for"
    /\ UNCHANGED <<alarm, interval, commands, round, played, calls, sleeps>>
    /\ UNCHANGED <<parseVars, timerVars, mainVars, formatVars>>

\* a variant whose loop runs while i <= attempts
PlayFor_OneMore ==
    /\ apc = "for"
    /\ IF round <= alarm.attempts /\ Len(commands) > 0
       THEN /\ played' = FALSE
            /\ apc' = "inner"
       ELSE /\ apc' = "returned"
            /\ UNCHANGED played
    /\ UNCHANGED <<alarm, interval, commands, round, calls, sleeps>>
    /\ UNCHANGED <<parseVars, timerVars, mainVars, formatVars>>

\* the test of the outer loop, and played := false
PlayFor ==
    /\ apc = "for"
    /\ IF round < alarm.attempts /\ Len(commands) > 0
       THEN /\ played' = FALSE
            /\ apc' = "inner"
       ELSE /\ apc' = "returned"
            /\ UNCHANGED played
    /\ UNCHANGED <<alarm, interval, commands, round, calls, sleeps>>
    /\ UNCHANGED <<parseVars, timerVars, mainVars, formatVars>>

\* a variant that tries the candidates from the last to the first
PlayInner_LastFirst ==
    /\ apc = "inner"
    /\ LET last == Len(commands) - 1
       IN  IF 0 <= last
           THEN \E err \in Booleans :
                   /\ calls' = Append(calls, [name |-> commands[last + 1], err |-> err])
                   /\ IF ~err
                      THEN /\ played' = TRUE
                           /\ apc' = "after"
                           /\ UNCHANGED commands
                      ELSE /\ commands' = removeCommand(commands, last)
                           /\ UNCHANGED <<played, apc>>
           ELSE /\ apc' = "after"
                /\ UNCHANGED <<commands, played, calls>>
    /\ UNCHANGED <<alarm, interval, round, sleeps>>
    /\ UNCHANGED <<parseVars, timerVars, mainVars, formatVars>>

\* a pass of the inner loop, whose idx is 0 at every pass since nothing adds
\* to it: the call of runner, then the break or the removal
PlayInner ==
    /\ apc = "inner"
    /\ LET idx0 == 0
       IN  IF idx0 < Len(commands)
           THEN \E err \in Booleans :
                   /\ calls' = Append(calls, [name |-> commands[idx0 + 1], err |-> err])
                   /\ IF ~err
                      THEN /\ played' = TRUE
                           /\ apc' = "after"
                           /\ UNCHANGED commands
                      ELSE /\ commands' = removeCommand(commands, idx0)
                           /\ UNCHANGED <<played, apc>>
           ELSE /\ apc' = "after"
                /\ UNCHANGED <<commands, played, calls>>
    /\ UNCHANGED <<alarm, interval, round, sleeps>>
    /\ UNCHANGED <<parseVars, timerVars, mainVars, formatVars>>

\* a variant that sleeps and goes on after a round that played nothing
PlayAfter_GoesOn ==
    /\ apc = "after"
    /\ sleeps' = sleeps + 1
    /\ round' = round + 1
    /\ apc' = "for"
    /\ UNCHANGED <<alarm, interval, commands, played, calls>>
    /\ UNCHANGED <<parseVars, timerVars, mainVars, formatVars>>

\* if !played { return }; time.Sleep(interval); i++
PlayAfter ==
    /\ apc = "after"
    /\ IF ~played
       THEN /\ apc' = "returned"
            /\ UNCHANGED <<sleeps, round>>
       ELSE /\ sleeps' = sleeps + 1
            /\ round' = round + 1
            /\ apc' = "for"
    /\ UNCHANGED <<alarm, interval, commands, played, calls>>
    /\ UNCHANGED <<parseVars, timerVars, mainVars, formatVars>>

AlarmNext ==
    \/ PlayEntry
    \/ PlayFor
    \/ PlayInner
    \/ PlayAfter

SpecAlarm == AlarmInit /\ [][AlarmNext]_vars

\* the function under a scheduler that runs it, with a runner that returns
SpecAlarmFair == SpecAlarm /\ WF_vars(AlarmNext)


(***************************************************************************)
(* main: the worker invocation, the parse and its errors, help and         *)
(* version, and the timer run with the exit code that follows it.          *)
(***************************************************************************)
internalAlarmArg ==
    <<"_", "_", "t", "i", "m", "e", "r", "_", "i", "n", "t", "e", "r", "n", "a", "l",
      "_", "a", "l", "a", "r", "m", "_", "w", "o", "r", "k", "e", "r">>

\* the tokens of the command lines a process of the model is started with
MainTokens ==
    { internalAlarmArg,
      <<"0", "s">>, <<"1", "s">>,
      <<"-", "q">>, <<"-", "s">>,
      <<"-", "h">>, <<"-", "v">>,
      <<"-", "-", "w", "a", "t">>,
      <<"a", "b", "c">>,
      <<"-", "1", "s">> }

RECURSIVE MainSeqsUpTo(_)
MainSeqsUpTo(n) ==
    IF n = 0 THEN {<<>>}
    ELSE LET shorter == MainSeqsUpTo(n - 1)
         IN  shorter \cup
             {Append(s, t) : s \in {x \in shorter : Len(x) = n - 1}, t \in MainTokens}

\* os.Args: empty, or the program name and up to MaxArgs tokens
MainArgLists == {<<>>} \cup {<<ProgramName>> \o s : s \in MainSeqsUpTo(MaxArgs)}

\* a variant that asks only for the sentinel in the first place
shouldRunInternalAlarm_Prefix(a) == Len(a) >= 2 /\ a[2] = internalAlarmArg

\* len(args) == 2 && args[1] == internalAlarmArg
shouldRunInternalAlarm(a) == Len(a) = 2 /\ a[2] = internalAlarmArg

\* the earlier revision, which marks the worker by an environment variable
shouldRunInternalAlarmEnv(a, envValue) == envValue = "1" /\ Len(a) = 1

\* a variant that gives a usage error the exit code 1
renderInvocationError_UsageIsOne(err) ==
    CASE err = "unknownOption" -> [message |-> "unknown option, help text", code |-> 2]
      [] err = "errUsage" -> [message |-> "usageText", code |-> 1]
      [] OTHER -> [message |-> "Error", code |-> 2]

\* the message, by its kind, and the exit code of a parse error
renderInvocationError(err) ==
    CASE err = "unknownOption" -> [message |-> "unknown option, help text", code |-> 2]
      [] err = "errUsage" -> [message |-> "usageText", code |-> 2]
      [] err = "errInvalidDuration" ->
            [message |-> "Error: invalid duration format", code |-> 2]
      [] err = "errDurationMustBeAtLeastZero" ->
            [message |-> "Error: duration must be >= 0", code |-> 2]
      [] OTHER -> [message |-> "Error", code |-> 2]

MainInit ==
    /\ ParseIdle
    /\ TimerIdle
    /\ AlarmIdle
    /\ FormatIdle
    /\ osArgs \in MainArgLists
    /\ mpc = "start"
    /\ exitCode = -1
    /\ signals = <<>>
    /\ sigCh = <<>>
    /\ forwarder = "none"

\* if shouldRunInternalAlarm(os.Args) { runAlarmWorker(); return }
MainDispatch ==
    /\ mpc = "start"
    /\ mpc' = IF shouldRunInternalAlarm(osArgs) THEN "worker" ELSE "parse"
    /\ UNCHANGED <<osArgs, exitCode, signals, sigCh, forwarder>>
    /\ UNCHANGED <<parseVars, timerVars, alarmVars, formatVars>>

\* newInternalAlarmCmd: the command line of the worker, quietCmd(exe, internalAlarmArg)
newInternalAlarmCmd(exe) == << exe, internalAlarmArg >>

\* a variant of the worker that asks for six attempts
runAlarmWorker_SixAttempts ==
    \E goos \in {"darwin", "linux"}, found \in SUBSET BackendNames :
        /\ alarm' = [commands |-> resolveAlarmCommands(goos, found),
                     attempts |-> WorkerAttempts + 2]
        /\ interval' = WorkerInterval
        /\ commands' = resolveAlarmCommands(goos, found)

\* runAlarmWorker: playAlarmAttempts(resolveAlarmCommands(), 4,
\* 100*time.Millisecond, runAlarmCommand), on the platform of the process and
\* with the backends exec.LookPath finds
runAlarmWorker ==
    \E goos \in {"darwin", "linux"}, found \in SUBSET BackendNames :
        /\ alarm' = [commands |-> resolveAlarmCommands(goos, found),
                     attempts |-> WorkerAttempts]
        /\ interval' = WorkerInterval
        /\ commands' = resolveAlarmCommands(goos, found)

\* main calls runAlarmWorker, which calls playAlarmAttempts
MainWorkerStarts ==
    /\ mpc = "worker"
    /\ apc = "idle"
    /\ runAlarmWorker
    /\ apc' = "entry"
    /\ UNCHANGED <<round, played, calls, sleeps>>
    /\ UNCHANGED mainVars
    /\ UNCHANGED <<parseVars, timerVars, formatVars>>

\* playAlarmAttempts and runAlarmWorker have returned, and main returns
MainWorkerReturns ==
    /\ mpc = "worker"
    /\ apc = "returned"
    /\ mpc' = "exited"
    /\ exitCode' = 0
    /\ UNCHANGED <<osArgs, signals, sigCh, forwarder>>
    /\ UNCHANGED <<parseVars, timerVars, alarmVars, formatVars>>

\* parseInvocation and what main does with its result: the exit of an error,
\* of help and of version, or the call of runTimer under a live context, with
\* the signal goroutine started and the streams and the platform the process
\* finds
MainParse ==
    /\ mpc = "parse"
    /\ LET inv == parseInvocation(osArgs)
       IN  IF inv.err # "nil"
           THEN /\ exitCode' = renderInvocationError(inv.err).code
                /\ mpc' = "exited"
                /\ UNCHANGED <<call, state, forwarder>>
           ELSE IF inv.mode \in {"modeHelp", "modeVersion"}
           THEN /\ exitCode' = 0
                /\ mpc' = "exited"
                /\ UNCHANGED <<call, state, forwarder>>
           ELSE /\ \E stderrIsTTY \in Booleans, advanced \in Booleans,
                      stdoutIsTTY \in Booleans, goos \in {"darwin", "linux"} :
                        call' = [duration |-> inv.duration,
                                 status |-> [interactive |-> stderrIsTTY,
                                             supportsAdvanced |-> advanced],
                                 sideEffectsInteractive |-> stdoutIsTTY,
                                 quiet |-> inv.quiet,
                                 forceAlarm |-> inv.forceAlarm,
                                 forceAwake |-> inv.forceAwake,
                                 goos |-> goos]
                /\ state' = "Starting"
                /\ forwarder' = "waiting"
                /\ mpc' = "timer"
                /\ UNCHANGED exitCode
    /\ UNCHANGED <<ctxCause, now, doneC, tickC, nextTick, output, alarmCalls,
                   sleepInhibitor, inhibitor, ret, worker, alarmAt, firedAtCancel>>
    /\ UNCHANGED <<osArgs, signals, sigCh>>
    /\ UNCHANGED <<parseVars, alarmVars, formatVars>>

\* runTimer has returned: os.Exit(exitCodeForCancelError(err)), which runs no
\* deferred call, or the return, whose deferred cancel(nil) cancels a context
\* that is live and leaves the cause of a cancelled one
MainExit ==
    /\ mpc = "timer"
    /\ state \in {"Completed", "Cancelled"}
    /\ exitCode' = ExitCode
    /\ mpc' = "exited"
    /\ ctxCause' = IF ret = "nil" /\ ctxCause = "none" THEN "context.Canceled"
                   ELSE ctxCause
    /\ UNCHANGED <<call, state, now, doneC, tickC, nextTick, output, alarmCalls,
                   sleepInhibitor, inhibitor, ret, worker, alarmAt, firedAtCancel>>
    /\ UNCHANGED <<osArgs, signals, sigCh, forwarder>>
    /\ UNCHANGED <<parseVars, alarmVars, formatVars>>

MainNext ==
    \/ MainDispatch
    \/ MainWorkerStarts
    \/ MainWorkerReturns
    \/ MainParse
    \/ MainExit
    \/ TimerNext
    \/ AlarmNext

SpecMain == MainInit /\ [][MainNext]_vars

(***************************************************************************)
(* main with its signals: signal.Notify relays SIGINT and SIGTERM to       *)
(* sigCh, a channel of capacity 1, and one goroutine receives one signal   *)
(* and cancels the context with it.                                        *)
(***************************************************************************)
\* the signals a process of the model receives during its run
MaxSignals == 2

\* the command lines the signals are examined under
SignalArgLists ==
    { <<ProgramName, <<"0", "s">> >>,
      <<ProgramName, <<"1", "s">> >>,
      <<ProgramName, <<"-", "q">>, <<"1", "s">> >> }

SignalInit ==
    /\ MainInit
    /\ osArgs \in SignalArgLists

\* a variant whose channel keeps the latest signal in place of the earliest
SignalArrives_KeepsLatest ==
    /\ mpc = "timer"
    /\ Len(signals) < MaxSignals
    /\ \E sig \in Causes :
          /\ signals' = Append(signals, sig)
          /\ sigCh' = << sig >>
    /\ UNCHANGED <<osArgs, mpc, exitCode, forwarder>>
    /\ UNCHANGED <<parseVars, timerVars, alarmVars, formatVars>>

\* a signal arrives after signal.Notify: os/signal sends it to sigCh without
\* blocking, so it is dropped when the channel is full
SignalArrives ==
    /\ mpc = "timer"
    /\ Len(signals) < MaxSignals
    /\ \E sig \in Causes :
          /\ signals' = Append(signals, sig)
          /\ sigCh' = IF Len(sigCh) < 1 THEN Append(sigCh, sig) ELSE sigCh
    /\ UNCHANGED <<osArgs, mpc, exitCode, forwarder>>
    /\ UNCHANGED <<parseVars, timerVars, alarmVars, formatVars>>

\* sig, ok := <-sigCh
ForwarderReceives ==
    /\ mpc = "timer"
    /\ forwarder = "waiting"
    /\ sigCh # <<>>
    /\ forwarder' = Head(sigCh)
    /\ sigCh' = Tail(sigCh)
    /\ UNCHANGED <<osArgs, mpc, exitCode, signals>>
    /\ UNCHANGED <<parseVars, timerVars, alarmVars, formatVars>>

\* cancel(signalCause{sig: sig}): the first cancel sets the cause, and the
\* goroutine ends
ForwarderCancels ==
    /\ mpc = "timer"
    /\ forwarder \in Causes
    /\ ctxCause' = IF ctxCause = "none" THEN forwarder ELSE ctxCause
    /\ firedAtCancel' = IF ctxCause = "none" THEN doneC ELSE firedAtCancel
    /\ forwarder' = "done"
    /\ UNCHANGED <<call, state, now, doneC, tickC, nextTick, output, alarmCalls,
                   sleepInhibitor, inhibitor, ret, worker, alarmAt>>
    /\ UNCHANGED <<osArgs, mpc, exitCode, signals, sigCh>>
    /\ UNCHANGED <<parseVars, alarmVars, formatVars>>

SignalNext ==
    \/ MainDispatch
    \/ MainParse
    \/ MainExit
    \/ SignalArrives
    \/ ForwarderReceives
    \/ ForwarderCancels
    \/ TimerEntry
    \/ AdvanceTime
    \/ DeadlineFires
    \/ TickerFires
    \/ SelectCancelled
    \/ SelectDone
    \/ SelectTick
    \/ WorkerExits

SpecSignals == SignalInit /\ [][SignalNext]_vars


(***************************************************************************)
(* formatRemainingTime on its own, on the times a tick can observe: the    *)
(* deadline is at most 2^63 - 1 ns after the start and the first tick      *)
(* comes no sooner than one period of the ticker after it, so a tick       *)
(* observes a positive time of at most 2^63 - 1 ns less that period.       *)
(***************************************************************************)
RemainingHours == {0, 1, 99, 100, 2562047}

RemainingMs ==
    {0, 1, 999, 1000, 1001, 59999, 60000, 60001, 2835854, 2835855, 2836354,
     2836355, 3599000, 3599001, 3599999}

RemainingNs == {0, 1, 775807}

\* the largest time a tick observes
MaxObserved == MagSub(MaxInt64, Milliseconds(TickInterval))

ObservedRemaining ==
    {r \in [sign : {1}, h : RemainingHours, ms : RemainingMs, ns : RemainingNs] :
        /\ r.h > 0 \/ r.ms > 0 \/ r.ns > 0
        /\ ~MagLess(MaxObserved, r)}

FormatInit ==
    /\ ParseIdle
    /\ TimerIdle
    /\ AlarmIdle
    /\ MainIdle
    /\ tickRemaining \in ObservedRemaining
    /\ rendered = "none"

\* formatRemainingTime(remaining), as the tick case calls it
FormatRemaining ==
    /\ rendered = "none"
    /\ rendered' = formatRemainingTime(tickRemaining)
    /\ UNCHANGED tickRemaining
    /\ UNCHANGED <<parseVars, timerVars, alarmVars, mainVars>>

FormatNext == FormatRemaining

SpecFormat == FormatInit /\ [][FormatNext]_vars


(***************************************************************************)
(* What an argument list says, read off the list itself: the vocabulary    *)
(* of the properties of the parser.                                        *)
(***************************************************************************)
\* the tokens after the program name
Given(a) == IF Len(a) <= 1 THEN <<>> ELSE Tail(a)

\* the position of the first "--" of s, Len(s) + 1 if there is none
TerminatorAt(s) ==
    IF \E i \in 1..Len(s) : s[i] = DoubleDash
    THEN CHOOSE i \in 1..Len(s) : s[i] = DoubleDash /\ \A j \in 1..(i - 1) : s[j] # DoubleDash
    ELSE Len(s) + 1

BeforeTerminator(s) == SubSeq(s, 1, TerminatorAt(s) - 1)

AfterTerminator(s) == SubSeq(s, TerminatorAt(s) + 1, Len(s))

ShortLetters == {"h", "v", "q", "s", "c"}

IsFlagToken(t) ==
    \E i \in 1..Len(cliFlags) : t = cliFlags[i].short \/ t = cliFlags[i].long

LooksNegative(t) == Len(t) >= 2 /\ t[1] = "-" /\ (t[2] \in Digits \/ t[2] = ".")

\* "-" and two or more known short-flag letters
IsCluster(t) ==
    Len(t) >= 3 /\ t[1] = "-" /\ \A i \in 2..Len(t) : t[i] \in ShortLetters

\* "-" and two or more letters, one of them unknown
IsBrokenCluster(t) ==
    /\ Len(t) >= 3 /\ t[1] = "-" /\ t[2] # "-" /\ ~LooksNegative(t)
    /\ \E i \in 2..Len(t) : t[i] \notin ShortLetters

IsUnknownOption(t) ==
    /\ Len(t) >= 1 /\ t[1] = "-" /\ t # DoubleDash
    /\ ~IsFlagToken(t) /\ ~IsCluster(t) /\ ~LooksNegative(t)

IsOperand(t) == ~IsFlagToken(t) /\ ~IsCluster(t) /\ ~IsUnknownOption(t)

UnknownOptions(a) == SelectSeq(BeforeTerminator(Given(a)), IsUnknownOption)

\* the positional tokens: the operands before the terminator, all tokens after it
Positionals(a) ==
    SelectSeq(BeforeTerminator(Given(a)), IsOperand) \o AfterTerminator(Given(a))

\* flag number k of cliFlags stands before the terminator, alone or in a cluster
FlagGiven(a, k) ==
    \E i \in 1..Len(BeforeTerminator(Given(a))) :
        LET t == BeforeTerminator(Given(a))[i]
        IN  \/ t = cliFlags[k].short
            \/ t = cliFlags[k].long
            \/ IsCluster(t) /\ \E j \in 2..Len(t) : t[j] = cliFlags[k].short[2]

HelpGiven(a) == FlagGiven(a, 1)
VersionGiven(a) == FlagGiven(a, 2)
QuietGiven(a) == FlagGiven(a, 3)
SoundGiven(a) == FlagGiven(a, 4)
CaffeinateGiven(a) == FlagGiven(a, 5)

\* run mode: no unknown option, no help or version flag
RunRequested(a) ==
    Len(a) > 1 /\ UnknownOptions(a) = <<>> /\ ~HelpGiven(a) /\ ~VersionGiven(a)

(***************************************************************************)
(* Properties of the invocation parser.                                    *)
(***************************************************************************)

C2_HelpAlwaysWins ==
    (pc = "done" /\ UnknownOptions(args) = <<>> /\ HelpGiven(args))
        => (result.err = "nil" /\ result.mode = "modeHelp")

\* C2 as amended: with no unknown option and at most one positional token, a
\* help flag before the terminator yields mode Help, with or without a
\* version flag and a duration token, in any order.
C2_HelpWins ==
    (pc = "done" /\ UnknownOptions(args) = <<>> /\ HelpGiven(args)
                 /\ Len(Positionals(args)) <= 1)
        => (result.err = "nil" /\ result.mode = "modeHelp")

C2_Witness ==
    /\ pc = "done"
    /\ HelpGiven(args) /\ VersionGiven(args)
    /\ Len(Positionals(args)) = 1
    /\ args[2] # <<"-", "h">> /\ args[2] # <<"-", "-", "h", "e", "l", "p">>
    /\ result.err = "nil" /\ result.mode = "modeHelp"

\* C3: an invocation resolved to mode Version carries quiet, forceAlarm and
\* forceAwake exactly for the flags -q/--quiet, -s/--sound, -c/--caffeinate
\* given before the terminator, wherever they stand.
C3_VersionCarriesFlags ==
    (pc = "done" /\ result.err = "nil" /\ result.mode = "modeVersion")
        => /\ result.quiet = QuietGiven(args)
           /\ result.forceAlarm = SoundGiven(args)
           /\ result.forceAwake = CaffeinateGiven(args)

C3_Witness ==
    /\ pc = "done"
    /\ result.err = "nil" /\ result.mode = "modeVersion"
    /\ args[2] \in {<<"-", "v">>, <<"-", "-", "v", "e", "r", "s", "i", "o", "n">>}
    /\ result.quiet /\ result.forceAlarm /\ ~result.forceAwake

\* C4: a token that starts with "-" and a digit or "." is a positional duration
\* candidate: the scan captures it as the duration token and never records or
\* reports it as an unknown option; in run mode a token that parses to a
\* negative duration yields DurationMustBeNonNegativeError and one that parses
\* to zero yields a Run invocation of duration 0.
C4_NegativeLookingIsDuration ==
    /\ ~LooksNegative(locals.firstUnknownOption)
    /\ (pc = "scan" /\ idx > 2 /\ LooksNegative(normalized[idx - 1]))
         => locals.durationToken = normalized[idx - 1]
    /\ pc = "done" => ~(result.err = "unknownOption" /\ LooksNegative(result.option))
    /\ (pc = "done" /\ RunRequested(args) /\ Len(Positionals(args)) = 1)
         => LET d == ParseDuration(Positionals(args)[1])
            IN  /\ (d.ok /\ d.d < 0) => result.err = "errDurationMustBeAtLeastZero"
                /\ (d.ok /\ d.d = 0) =>
                     /\ result.err = "nil"
                     /\ result.mode = "modeRun"
                     /\ result.duration = 0

C4_Witness ==
    /\ pc = "done"
    /\ RunRequested(args)
    /\ Positionals(args) = << <<"-", "1", "s">> >>
    /\ BeforeTerminator(Given(args)) = Given(args)
    /\ QuietGiven(args)
    /\ result.err = "errDurationMustBeAtLeastZero"

\* C5 as stated: a list with two positional tokens, whatever their content,
\* the empty string included, yields UsageError and never parses.
C5_SecondPositionalIsUsageError ==
    (pc = "done" /\ Len(Positionals(args)) >= 2) => result.err = "errUsage"

\* C8: with no token after the program name, and in run mode with no
\* positional token (behaviour flags only, or a lone "--"), parseInvocation
\* returns UsageError.
C8_MissingDurationIsUsageError ==
    (pc = "done" /\ (Len(args) <= 1 \/ (RunRequested(args) /\ Positionals(args) = <<>>)))
        => result.err = "errUsage"

C8_Witness ==
    /\ pc = "done"
    /\ RunRequested(args)
    /\ Positionals(args) = <<>>
    /\ QuietGiven(args)
    /\ \E i \in 2..Len(args) : args[i] = DoubleDash
    /\ result.err = "errUsage"

\* the tokens the scan loop has consumed so far
Consumed == IF pc = "scan" THEN SubSeq(normalized, 2, idx - 1) ELSE <<>>

FirstOrEmpty(s) == IF s = <<>> THEN EmptyString ELSE Head(s)

\* C6: the first "--" is consumed and is no positional token; every token
\* after it is a positional duration candidate: it is not expanded, sets no
\* flag and is not recorded as an unknown option.  So during the scan the
\* flags and the unknown option are those of the tokens before the
\* terminator, and every token after it was captured as the duration token.
C6_TerminatorEndsOptions ==
    /\ pc \in {"scan", "done"} /\ Len(args) > 1
         => /\ AfterTerminator(Tail(normalized)) = AfterTerminator(Tail(args))
            /\ (TerminatorAt(Tail(normalized)) <= Len(Tail(normalized)))
                 = (TerminatorAt(Tail(args)) <= Len(Tail(args)))
    /\ pc = "scan"
         => LET before == BeforeTerminator(Consumed)
                after  == AfterTerminator(Consumed)
            IN  /\ locals.seenDoubleDash = (TerminatorAt(Consumed) <= Len(Consumed))
                /\ locals.hasHelp = (\E i \in 1..Len(before) :
                       before[i] \in {cliFlags[1].short, cliFlags[1].long})
                /\ locals.hasVersion = (\E i \in 1..Len(before) :
                       before[i] \in {cliFlags[2].short, cliFlags[2].long})
                /\ locals.quiet = (\E i \in 1..Len(before) :
                       before[i] \in {cliFlags[3].short, cliFlags[3].long})
                /\ locals.forceAlarm = (\E i \in 1..Len(before) :
                       before[i] \in {cliFlags[4].short, cliFlags[4].long})
                /\ locals.forceAwake = (\E i \in 1..Len(before) :
                       before[i] \in {cliFlags[5].short, cliFlags[5].long})
                /\ locals.firstUnknownOption
                       = FirstOrEmpty(SelectSeq(before, IsUnknownOption))
                /\ \A i \in 1..Len(after) :
                       after[i] \in {EmptyString, locals.durationToken}
                /\ locals.durationToken = DoubleDash
                       => \E i \in 1..Len(after) : after[i] = DoubleDash
    /\ pc = "done" /\ result.err = "unknownOption"
         => \E i \in 1..Len(BeforeTerminator(Given(args))) :
                result.option = BeforeTerminator(Given(args))[i]

C6_Witness ==
    /\ pc = "scan"
    /\ locals.seenDoubleDash
    /\ Len(AfterTerminator(Consumed)) = 1
    /\ AfterTerminator(Consumed)[1] \in {<<"-", "q">>, <<"-", "q", "s">>, <<"-", "q", "x">>}
    /\ locals.durationToken = AfterTerminator(Consumed)[1]
    /\ ~locals.quiet
    /\ locals.firstUnknownOption = EmptyString

\* a with the cluster at position i replaced by its single-letter flags
SplitClusterAt(a, i) ==
    SubSeq(a, 1, i - 1)
        \o [k \in 1..(Len(a[i]) - 1) |-> <<"-", a[i][k + 1]>>]
        \o SubSeq(a, i + 1, Len(a))

Swap(a, i, j) == [a EXCEPT ![i] = a[j], ![j] = a[i]]

\* C9 as stated: without "--" and without unknown option, every reordering of
\* the tokens after the program name gives the same result.
C9_OrderDoesNotMatter ==
    (pc = "done" /\ Len(args) > 1 /\ UnknownOptions(args) = <<>>
                 /\ TerminatorAt(Given(args)) > Len(Given(args)))
        => \A i, j \in 2..Len(args) : parseInvocation(Swap(args, i, j)) = result

\* the same for lists without an empty token: the order matters only through
\* the empty duration token of C5
C9_OrderOfNonEmptyTokens ==
    (pc = "done" /\ Len(args) > 1 /\ UnknownOptions(args) = <<>>
                 /\ TerminatorAt(Given(args)) > Len(Given(args))
                 /\ \A k \in 2..Len(args) : args[k] # EmptyString)
        => \A i, j \in 2..Len(args) : parseInvocation(Swap(args, i, j)) = result

(***************************************************************************)
(* Properties of the timer.                                                *)
(***************************************************************************)

\* C10: on the Completed transition alarmStarter is called exactly once if
\* forceAlarm, or sideEffectsInteractive and status.interactive and not quiet,
\* and not at all otherwise; it is never called before that transition.
C10_AlarmOnCompletion ==
    /\ state # "Completed" => alarmCalls = 0
    /\ state = "Completed"
         => alarmCalls =
              IF call.forceAlarm
                 \/ (call.sideEffectsInteractive /\ call.status.interactive /\ ~call.quiet)
              THEN 1 ELSE 0
    /\ (state = "Completed" /\ call.forceAlarm) => alarmCalls = 1
    /\ (state = "Completed" /\ call.quiet /\ ~call.forceAlarm) => alarmCalls = 0

C10_Witness ==
    /\ state = "Completed"
    /\ ~call.forceAlarm /\ ~call.quiet
    /\ call.sideEffectsInteractive /\ call.status.interactive
    /\ call.duration > 0
    /\ alarmCalls = 1

\* what C11 expects of a cancellation cause: 130 for an interrupt, 143 for a
\* termination signal, bare or wrapped, 130 for anything else
ExpectedExitCode(cause) ==
    IF cause \in {"SIGTERM", "wrapped: SIGTERM"} THEN 143 ELSE 130

\* C11: a run that ends Cancelled returns the cause the context carries, and
\* the exit code derived from it is 130 for an interrupt signal, 143 for a
\* termination signal, also when wrapped, and 130 for any other cause.
C11_CancelCauseAndExitCode ==
    state = "Cancelled"
        => /\ ret = ctxCause
           /\ ExitCode = ExpectedExitCode(ctxCause)
           /\ ExitCode \in {130, 143}

C11_Witness ==
    /\ state = "Cancelled"
    /\ ret = "wrapped: SIGTERM"
    /\ ExitCode = 143

\* the run is in one of its two terminal states
Terminal == state \in {"Completed", "Cancelled"}

\* the writes C12 expects of a terminal transition: the line clear of an
\* interactive stream, then the text that quiet and interactive select
ExpectedClear ==
    IF ~call.status.interactive THEN <<>>
    ELSE IF call.status.supportsAdvanced THEN << "\\r\\033[K" >> ELSE << "\\r" >>

ExpectedText(word) ==
    IF call.quiet THEN <<>>
    ELSE IF call.status.interactive THEN << "timer " \o word \o "\\n" >>
    ELSE << "timer: " \o word \o "\\n" >>

\* C12: the terminal transition writes, after a line clear that is made only
\* on an interactive status stream, nothing if quiet, else "timer complete" or
\* "timer cancelled" on an interactive stream, else the lifecycle line
\* "timer: complete" or "timer: cancelled".
C12_TerminalText ==
    [][ (state = "Counting" /\ state' \in {"Completed", "Cancelled"})
          => output' = output \o ExpectedClear
                          \o ExpectedText(IF state' = "Completed"
                                          THEN "complete" ELSE "cancelled") ]_vars

C12_Witness ==
    /\ state = "Cancelled"
    /\ call.status.interactive /\ ~call.quiet /\ call.status.supportsAdvanced
    /\ Len(output) >= 2
    /\ output[Len(output)] = "timer cancelled\\n"
    /\ output[Len(output) - 1] = "\\r\\033[K"

\* the lifecycle line of the entry
StartedLine == "timer: started (" \o DurationString(call.duration) \o ")\\n"

Written(line) == \E i \in 1..Len(output) : output[i] = line

\* C13 as stated: after the entry, a non-interactive run that is not quiet has
\* the started line as its first output, whatever the state of the context at
\* entry; an interactive or quiet run never has it.
C13_StartedLineOnEveryRun ==
    state # "Starting"
        => IF ~call.status.interactive /\ ~call.quiet
           THEN Len(output) >= 1 /\ output[1] = StartedLine
           ELSE ~Written(StartedLine)

\* C13: the entry writes the started line, as the first output, exactly when
\* the status stream is non-interactive, quiet is false and the context is not
\* already cancelled; no later step writes it, so a run that is interactive,
\* quiet or cancelled at entry never has it.
C13_StartedLine ==
    [][ /\ (state = "Starting" /\ state' = "Counting")
            => output' = IF /\ ~call.status.interactive
                            /\ ~call.quiet
                            /\ ctxCause = "none"
                         THEN << StartedLine >>
                         ELSE <<>>
        /\ state # "Starting"
            => \A i \in (Len(output) + 1)..Len(output') : output'[i] # StartedLine
      ]_vars

C13_Witness ==
    /\ state = "Cancelled"
    /\ ~call.status.interactive /\ ~call.quiet
    /\ output = << "timer: cancelled\\n" >>

\* C14: a quiet run on a non-interactive status stream writes nothing to the
\* status stream, in any state and on both the Completed and Cancelled paths.
C14_QuietNonInteractiveIsSilent ==
    (call.quiet /\ ~call.status.interactive) => output = <<>>

C14_Witness ==
    /\ state = "Completed"
    /\ call.quiet /\ ~call.status.interactive
    /\ call.duration > 0
    /\ output = <<>>

CompletionTexts == {"timer complete\\n", "timer: complete\\n"}

CompletionCount(out) ==
    Cardinality({i \in 1..Len(out) : out[i] \in CompletionTexts})

\* C15: the run becomes Completed only by receiving the deadline timer's
\* event, which is sent only once the duration has passed; a step that
\* receives a tick keeps the run Counting, invokes no alarm, returns nothing
\* and writes no completion text, and writes nothing at all when the time
\* remaining is zero or less; completion text is written at most once.
C15_OnlyDeadlineCompletes ==
    [][ /\ (state = "Counting" /\ state' = "Completed")
            => doneC /\ ~doneC' /\ now >= call.duration
        /\ (tickC /\ ~tickC')
            => /\ state' = "Counting"
               /\ alarmCalls' = alarmCalls
               /\ ret' = "pending"
               /\ CompletionCount(output') = CompletionCount(output)
               /\ (call.duration - now <= 0 => output' = output)
        /\ CompletionCount(output') <= 1
      ]_vars

C15_Witness ==
    /\ state = "Completed"
    /\ call.duration = 0
    /\ call.status.interactive /\ ~call.quiet
    /\ nextTick >= 2 * TickInterval
    /\ ~tickC
    /\ Len(output) = 2
    /\ CompletionCount(output) = 1

\* C16: a sleep inhibitor that was started is killed and reaped by the time
\* the run has returned, so no terminal state has a live inhibitor; it is
\* killed at most once, only at the return, and only if its start succeeded.
C16_InhibitorReaped ==
    /\ Terminal => sleepInhibitor # "running"
    /\ ret # "pending" => sleepInhibitor # "running"
    /\ sleepInhibitor = "reaped"
        => Terminal /\ inhibitor.kills = 1 /\ inhibitor.waits = 1
    /\ inhibitor.kills <= 1
    /\ inhibitor.kills > 0 => inhibitor.starts = 1 /\ sleepInhibitor = "reaped"
    /\ inhibitor.waits = inhibitor.kills

C16_Witness ==
    /\ state = "Cancelled"
    /\ sleepInhibitor = "reaped"
    /\ inhibitor = [starts |-> 1, kills |-> 1, waits |-> 1]

\* the condition of C17, read off the call
InhibitorWanted ==
    /\ call.goos = "darwin"
    /\ \/ call.sideEffectsInteractive /\ call.status.interactive
       \/ call.forceAwake

\* C17: the run attempts to start the sleep inhibitor, once, exactly when the
\* platform is darwin and either both streams are interactive or forceAwake is
\* set; on another platform no start is attempted, forceAwake or not.
C17_InhibitorStartCondition ==
    /\ state = "Starting" => inhibitor.starts = 0
    /\ state # "Starting" => inhibitor.starts = (IF InhibitorWanted THEN 1 ELSE 0)
    /\ call.goos # "darwin" => inhibitor.starts = 0 /\ sleepInhibitor = "nil"

C17_Witness ==
    /\ state = "Counting"
    /\ call.goos = "darwin"
    /\ call.forceAwake
    /\ ~call.sideEffectsInteractive
    /\ inhibitor.starts = 1

\* the names of the calls of runner, in order
CallNames == [k \in 1..Len(calls) |-> calls[k].name]

Failures == {k \in 1..Len(calls) : calls[k].err}

Successes == {k \in 1..Len(calls) : ~calls[k].err}

\* C18: a candidate whose call returned an error is no longer in the list and
\* is not called again; on candidates [A, B] with 4 attempts, when every call
\* of A fails and every call of B succeeds, the calls are A, B, B, B, B.
C18_FailedCandidateEvicted ==
    /\ \A j \in Failures :
          /\ \A k \in (j + 1)..Len(calls) : calls[k].name # calls[j].name
          /\ \A k \in 1..Len(commands) : commands[k] # calls[j].name
    /\ ( /\ apc = "returned"
         /\ Len(alarm.commands) = 2
         /\ alarm.attempts = 4
         /\ \A k \in 1..Len(calls) : calls[k].err <=> calls[k].name = alarm.commands[1] )
       => LET A == alarm.commands[1]
              B == alarm.commands[2]
          IN  CallNames = << A, B, B, B, B >>

C18_Witness ==
    /\ apc = "returned"
    /\ alarm = [commands |-> << "canberra-gtk-play", "timeout" >>, attempts |-> 4]
    /\ calls = << [name |-> "canberra-gtk-play", err |-> TRUE],
                  [name |-> "timeout", err |-> FALSE],
                  [name |-> "timeout", err |-> FALSE],
                  [name |-> "timeout", err |-> FALSE],
                  [name |-> "timeout", err |-> FALSE] >>

\* C19: playAlarmAttempts runs at most `attempts` rounds, with at most one
\* successful play in a round; once a round has ended without a successful
\* play, or the list was empty at the start, it returns, and after that
\* there is no call of runner and no sleep.
C19_RoundsAndEarlyStop ==
    /\ [](/\ round <= (IF alarm.attempts > 0 THEN alarm.attempts ELSE 0)
          /\ sleeps = round
          /\ Cardinality(Successes)
               = round + (IF apc = "after" /\ played THEN 1 ELSE 0)
          /\ (apc = "inner" => round < alarm.attempts))
    /\ [][ /\ (apc = "after" /\ ~played) => apc' = "returned"
           /\ (apc = "entry" /\ Len(commands) = 0) => apc' = "returned"
           /\ (apc = "returned" \/ apc' = "returned")
                => calls' = calls /\ sleeps' = sleeps /\ apc' = "returned"
         ]_vars

C19_Witness ==
    /\ apc = "returned"
    /\ alarm.attempts = 4
    /\ round = 1
    /\ sleeps = 1
    /\ Len(calls) >= 2
    /\ calls[Len(calls)].err
    /\ commands = <<>>

\* C20: the run's outcome does not depend on the alarm: receiving the
\* deadline event ends the run Completed with a nil return value in the same
\* step, whether the worker could not be spawned or runs; what the worker
\* does afterwards, finding no backend, failing on all or playing, changes
\* neither the state, the return value nor the output of the run.
C20_OutcomeIndependentOfAlarm ==
    /\ [](state = "Completed" => ret = "nil" /\ ExitCode = 0)
    /\ [][ /\ (state = "Counting" /\ doneC /\ ~doneC')
               => state' = "Completed" /\ ret' = "nil"
           /\ (worker' # worker /\ state # "Counting")
               => /\ worker = "running"
                  /\ UNCHANGED <<state, ret, output, alarmCalls>>
         ]_vars

C20_Witness ==
    /\ state = "Completed"
    /\ ret = "nil"
    /\ alarmCalls = 1
    /\ worker = "running"

\* the command line is the program name and the sentinel, nothing else
IsWorkerInvocation == Len(osArgs) = 2 /\ osArgs[2] = internalAlarmArg

\* C21: the process is in worker mode only when its arguments are exactly the
\* program name and the sentinel, and such a process is never parsed and never
\* runs a timer; any other command line is never in worker mode.  In the
\* revision that marks the worker by the environment, worker mode is chosen
\* exactly when the variable is "1" and no argument follows the program name,
\* so a command line with a token is ordinary whatever the variable holds.
C21_WorkerModeOnlyForSentinel ==
    /\ mpc = "worker" => IsWorkerInvocation
    /\ mpc \in {"parse", "timer"} => ~IsWorkerInvocation
    /\ (IsWorkerInvocation /\ mpc # "start")
        => mpc \in {"worker", "exited"} /\ state = "idle" /\ exitCode \in {-1, 0}
    /\ (~IsWorkerInvocation /\ mpc # "start") => mpc \in {"parse", "timer", "exited"}
    /\ \A e \in {"", "0", "1"} :
          /\ shouldRunInternalAlarmEnv(osArgs, e) <=> (e = "1" /\ Len(osArgs) = 1)
          /\ Len(osArgs) >= 2 => ~shouldRunInternalAlarmEnv(osArgs, e)

C21_Witness ==
    /\ mpc = "worker"
    /\ osArgs = << ProgramName, internalAlarmArg >>

\* the time has a part below the second
HasFraction(r) == r.ms % Second > 0 \/ r.ns > 0

\* ceil(r / 1s), as whole hours and the seconds below the hour
CeilSeconds(r) ==
    LET secs == r.ms \div Second + (IF HasFraction(r) THEN 1 ELSE 0)
    IN  IF secs = 3600 THEN [h |-> r.h + 1, secs |-> 0] ELSE [h |-> r.h, secs |-> secs]

Clock(h, secs) == Pad2(h) \o ":" \o Pad2(secs \div 60) \o ":" \o Pad2(secs % 60)

\* the countdown C22 expects, and the one truncation would give
CeilingClock(r) == Clock(CeilSeconds(r).h, CeilSeconds(r).secs)

TruncatedClock(r) == Clock(r.h, r.ms \div Second)

\* C22 as stated: the countdown rendered for a positive time remaining that a
\* tick observes is ceil(r / 1s) as HH:MM:SS, never 00:00:00 and never the
\* truncated value of a time with a part below the second.
C22_CountdownIsCeiling ==
    rendered # "none"
        => /\ rendered = CeilingClock(tickRemaining)
           /\ rendered # "00:00:00"
           /\ HasFraction(tickRemaining) => rendered # TruncatedClock(tickRemaining)

\* what does hold: the same for the times for which remaining + 1s - 1ns is
\* at most 2^63 - 1 ns
C22_CeilingBelowOverflow ==
    (rendered # "none" /\ ~MagLess(MaxInt64, MagAdd(tickRemaining, SecondMinusOne)))
        => /\ rendered = CeilingClock(tickRemaining)
           /\ rendered # "00:00:00"
           /\ HasFraction(tickRemaining) => rendered # TruncatedClock(tickRemaining)

ParseErrors ==
    {"errUsage", "unknownOption", "errInvalidDuration", "errDurationMustBeAtLeastZero"}

\* what parseInvocation returns for the command line of the process
Parsed == parseInvocation(osArgs)

\* C23: a process whose command line has a parse error (usage, unknown
\* option, invalid duration, negative duration) never starts the timer and
\* exits with code 2; a process that shows help or version exits with code 0
\* without a timer; a process whose timer completed exits with code 0.
C23_ExitCodes ==
    ~IsWorkerInvocation
        => /\ Parsed.err # "nil"
               => /\ Parsed.err \in ParseErrors
                  /\ mpc \in {"start", "parse", "exited"}
                  /\ state = "idle" /\ output = <<>> /\ inhibitor.starts = 0
                  /\ mpc = "exited" => exitCode = 2
           /\ (Parsed.err = "nil" /\ Parsed.mode \in {"modeHelp", "modeVersion"})
               => /\ mpc \in {"start", "parse", "exited"}
                  /\ state = "idle"
                  /\ mpc = "exited" => exitCode = 0
           /\ (mpc = "exited" /\ state = "Completed") => exitCode = 0

C23_Witness ==
    /\ mpc = "exited"
    /\ Parsed.err = "errDurationMustBeAtLeastZero"
    /\ exitCode = 2
    /\ state = "idle"

Modes == {"modeRun", "modeHelp", "modeVersion"}

\* the flags of the result are those given before the terminator
CarriesFlags ==
    /\ result.quiet = QuietGiven(args)
    /\ result.forceAlarm = SoundGiven(args)
    /\ result.forceAwake = CaffeinateGiven(args)

\* C24 as stated: a successful parse returns one of the three modes and, in
\* each of them, quiet, forceAlarm and forceAwake exactly for the flags given
\* before the terminator.
C24_FlagsInEveryMode ==
    (pc = "done" /\ result.err = "nil")
        => result.mode \in Modes /\ CarriesFlags

\* C24 as amended: a successful parse returns one of the three modes; a Run
\* or Version invocation has quiet, forceAlarm and forceAwake exactly for the
\* flags given before the terminator, and a Help invocation has all three
\* false, whatever flags were given.
C24_FlagsInRunAndVersion ==
    (pc = "done" /\ result.err = "nil")
        => /\ result.mode \in Modes
           /\ result.mode \in {"modeRun", "modeVersion"} => CarriesFlags
           /\ result.mode = "modeHelp"
                => ~result.quiet /\ ~result.forceAlarm /\ ~result.forceAwake

C24_Witness ==
    /\ pc = "done"
    /\ result.err = "nil" /\ result.mode = "modeHelp"
    /\ QuietGiven(args) /\ CaffeinateGiven(args)
    /\ ~result.quiet /\ ~result.forceAwake

\* digits with at most one decimal point and no unit
IsBareNumber(t) ==
    /\ \A i \in 1..Len(t) : t[i] \in Digits \cup {"."}
    /\ \E i \in 1..Len(t) : t[i] \in Digits
    /\ Cardinality({i \in 1..Len(t) : t[i] = "."}) <= 1

RECURSIVE DigitsValue(_)
DigitsValue(s) ==
    IF s = <<>> THEN 0
    ELSE 10 * DigitsValue(SubSeq(s, 1, Len(s) - 1)) + DigitVal(s[Len(s)])

\* a bare number of up to three decimals read as seconds, in ms
BareSeconds(t) ==
    LET p == IF \E i \in 1..Len(t) : t[i] = "."
             THEN CHOOSE i \in 1..Len(t) : t[i] = "."
             ELSE Len(t) + 1
        whole == SubSeq(t, 1, p - 1)
        frac == SubSeq(t, p + 1, Len(t))
        scale == CASE Len(frac) = 0 -> 1000 [] Len(frac) = 1 -> 100
                   [] Len(frac) = 2 -> 10 [] OTHER -> 1
    IN  DigitsValue(whole) * Second + DigitsValue(frac) * scale

\* C25 as stated: in run mode a single positional token that is a bare
\* integer or decimal is accepted and read as that many seconds.
C25_BareNumberIsSeconds ==
    ( /\ pc = "done"
      /\ RunRequested(args)
      /\ Len(Positionals(args)) = 1
      /\ IsBareNumber(Positionals(args)[1]) )
        => /\ result.err = "nil"
           /\ result.mode = "modeRun"
           /\ result.duration = BareSeconds(Positionals(args)[1])

\* the list asks for a run with one positional token, which does not start
\* with "-" and is no duration
OneInvalidPositional ==
    /\ RunRequested(args)
    /\ Len(Positionals(args)) = 1
    /\ LET t == Positionals(args)[1]
       IN  (Len(t) = 0 \/ t[1] # "-") /\ ~ParseDuration(t).ok

\* C26 as stated: in run mode a single positional token that does not start
\* with "-" and is no duration yields InvalidDurationError, the empty string
\* included.
C26_InvalidTokenIsInvalidDuration ==
    (pc = "done" /\ OneInvalidPositional) => result.err = "errInvalidDuration"

\* what does hold: the same for the tokens that are not empty
C26_NonEmptyInvalidToken ==
    (pc = "done" /\ OneInvalidPositional /\ Positionals(args)[1] # EmptyString)
        => result.err = "errInvalidDuration"

CancellationTexts == {"timer cancelled\\n", "timer: cancelled\\n"}

CancellationCount(out) ==
    Cardinality({i \in 1..Len(out) : out[i] \in CancellationTexts})

\* C28: under the fairness of SpecTimerFair every run reaches Completed or
\* Cancelled; a terminal state is never left, so there is one terminal
\* transition; completion text and cancellation text are never both written,
\* and neither is written twice.
C28_RunTerminatesOnce ==
    /\ <>Terminal
    /\ [][Terminal => state' = state /\ output' = output /\ ret' = ret]_vars
    /\ [](CompletionCount(output) + CancellationCount(output) <= 1)
    /\ []((CompletionCount(output) = 1 => state = "Completed")
          /\ (CancellationCount(output) = 1 => state = "Cancelled"))

C28_Witness ==
    /\ state = "Cancelled"
    /\ doneC
    /\ now >= call.duration
    /\ CancellationCount(output) = 1
    /\ CompletionCount(output) = 0

\* C29: a run that ends Cancelled has not called alarmStarter, whatever its
\* flags and streams; alarmStarter is called only in the step that receives
\* the deadline event and completes the run, at most once, and after the
\* writes of the completion, so that the completion text of a run that is not
\* quiet precedes the call.
C29_AlarmOnlyAfterCompletion ==
    /\ [](state = "Cancelled" => alarmCalls = 0 /\ alarmAt = -1 /\ worker = "none")
    /\ [](alarmCalls > 0
            => /\ state = "Completed"
               /\ alarmCalls = 1
               /\ alarmAt = Len(output)
               /\ ~call.quiet => CompletionCount(SubSeq(output, 1, alarmAt)) = 1)
    /\ [][alarmCalls' # alarmCalls
            => state = "Counting" /\ doneC /\ ~doneC' /\ state' = "Completed"]_vars

C29_Witness ==
    /\ state = "Completed"
    /\ alarmCalls = 1
    /\ ~call.quiet
    /\ alarmAt = Len(output)
    /\ output[alarmAt] \in CompletionTexts

\* the cancellation and the deadline event are both ready at a wait
BothReady == state = "Counting" /\ ctxCause # "none" /\ doneC

\* C30: at a wait where the cancellation and the deadline event are both
\* ready the select may take either case; a run that completes although its
\* context is cancelled has written completion text and no cancellation
\* text, has made its alarm decision as any completed run, and returns nil.
C30_NoPriorityInSelect ==
    /\ BothReady => (ENABLED SelectDone) /\ (ENABLED SelectCancelled)
    /\ (state = "Completed" /\ ctxCause # "none")
        => /\ ret = "nil" /\ ExitCode = 0
           /\ CancellationCount(output) = 0
           /\ ~call.quiet => CompletionCount(output) = 1
           /\ alarmCalls = (IF shouldTriggerAlarm(bothStreamsInteractive(call),
                                                  call.quiet, call.forceAlarm)
                            THEN 1 ELSE 0)

\* the run of duration 0 whose context was cancelled at entry (it has no
\* started line) and that completed
C30_Witness ==
    /\ state = "Completed"
    /\ call.duration = 0
    /\ ctxCause # "none"
    /\ ~call.status.interactive /\ ~call.quiet
    /\ output = << "timer: complete\\n" >>
    /\ call.forceAlarm /\ alarmCalls = 1
    /\ ret = "nil"


\* the cancellation reached the context before the deadline timer had fired
CancelledBeforeDeadline == ctxCause # "none" /\ ~firedAtCancel

\* C31, as stated: a run whose context was cancelled before the deadline
\* timer fired ends Cancelled, with no completion text and with the
\* cancellation cause as its return value.
C31_EarlyCancellationCancels ==
    (Terminal /\ CancelledBeforeDeadline) =>
        /\ state = "Cancelled"
        /\ ret = ctxCause
        /\ CompletionCount(output) = 0

\* C31, amended: once the loop takes the cancellation branch the run is over
\* (the step writes the cancellation texts alone, nothing is written after
\* it, no completion text was written and the cause is returned), and while
\* the deadline timer has not fired a cancelled run can end only Cancelled.
C31_ObservedCancellationEnds ==
    /\ [](state = "Cancelled" =>
            /\ ctxCause # "none"
            /\ ret = ctxCause
            /\ CompletionCount(output) = 0)
    /\ [][(state = "Counting" /\ state' = "Cancelled") =>
            output' = output \o printCancelled(call.status, call.quiet)]_vars
    /\ [][state = "Cancelled" =>
            /\ state' = "Cancelled"
            /\ output' = output
            /\ ret' = ret]_vars
    /\ [][(state = "Counting" /\ ctxCause # "none" /\ ~doneC /\ state' # "Counting") =>
            state' = "Cancelled"]_vars

\* a run that was redrawn, cancelled ahead of its deadline, and ended Cancelled
C31_Witness ==
    /\ state = "Cancelled"
    /\ CancelledBeforeDeadline
    /\ now < call.duration
    /\ call.status.interactive
    /\ Len(output) >= 2
    /\ ret \in Causes


\* the first signal the process received
FirstSignal == signals[1]

\* C32: a cause that is a signal is the first signal received, whatever was
\* received after it; a cause once set is never replaced, by a later signal
\* or by the deferred cancel(nil); a cancellation returned by the run is the
\* first signal, and the exit code is the one of that signal.
C32_FirstSignalIsTheCause ==
    /\ [](ctxCause \in Causes => signals # <<>> /\ ctxCause = FirstSignal)
    /\ [](ret \notin {"pending", "nil"} => signals # <<>> /\ ret = FirstSignal)
    /\ []((mpc = "exited" /\ ret \notin {"pending", "nil"}) =>
            exitCode = ExpectedExitCode(FirstSignal))
    /\ [][ctxCause # "none" => ctxCause' = ctxCause]_vars
    /\ [][ctxCause' = "context.Canceled" => ctxCause = "none" \/ ctxCause = ctxCause']_vars

\* SIGTERM then SIGINT during one run, which exits with the code of SIGTERM
\* while SIGINT is left in the channel
C32_Witness ==
    /\ signals = << "SIGTERM", "SIGINT" >>
    /\ sigCh = << "SIGINT" >>
    /\ forwarder = "done"
    /\ mpc = "exited"
    /\ ret = "SIGTERM"
    /\ exitCode = 143


\* the place of a candidate in the list playAlarmAttempts was called with
Rank(name) == CHOOSE k \in 1..Len(alarm.commands) : alarm.commands[k] = name

\* the candidates ahead of a candidate in that list
Ahead(name) == {alarm.commands[k] : k \in 1..(Rank(name) - 1)}

\* C33: when a candidate is called every candidate ahead of it in the
\* original order has failed in an earlier call and is out of the list; the
\* call that follows a successful one, the first of the next round, is of
\* the same candidate; the list is what is left of the original order.
C33_CandidatesInPriorityOrder ==
    /\ \A k \in 1..Len(calls) :
          \A name \in Ahead(calls[k].name) :
             /\ \E j \in 1..(k - 1) : calls[j].name = name /\ calls[j].err
             /\ \A n \in 1..Len(commands) : commands[n] # name
    /\ \A k \in Successes :
          k < Len(calls) => calls[k + 1].name = calls[k].name
    /\ \A m, n \in 1..Len(commands) :
          m < n => Rank(commands[m]) < Rank(commands[n])

\* the first candidate fails, the second plays once and then fails, and the
\* third is called only then
C33_Witness ==
    /\ Len(alarm.commands) = 3
    /\ Len(calls) = 4
    /\ calls[1] = [name |-> alarm.commands[1], err |-> TRUE]
    /\ calls[2] = [name |-> alarm.commands[2], err |-> FALSE]
    /\ calls[3] = [name |-> alarm.commands[2], err |-> TRUE]
    /\ calls[4] = [name |-> alarm.commands[3], err |-> FALSE]
    /\ commands = << alarm.commands[3] >>


\* the attempts asked for, none when the number is not positive
AttemptsAsked == IF alarm.attempts > 0 THEN alarm.attempts ELSE 0

\* C34: playAlarmAttempts returns, having made at most one failed call per
\* candidate and at most `attempts` successful calls, so at most
\* n + attempts calls in all, and no call when attempts <= 0 or the list is
\* empty.
C34_CallsAreBounded ==
    /\ [](/\ Cardinality(Failures) <= Len(alarm.commands)
          /\ Cardinality(Successes) <= AttemptsAsked
          /\ Len(calls) <= Len(alarm.commands) + AttemptsAsked
          /\ (alarm.attempts <= 0 \/ alarm.commands = <<>>) => calls = <<>>)
    /\ <>(apc = "returned")

\* three plays of the first candidate, then a round in which all three fail
C34_Witness ==
    /\ apc = "returned"
    /\ Len(alarm.commands) = 3
    /\ alarm.attempts = 4
    /\ Cardinality(Failures) = 3
    /\ Cardinality(Successes) = 3
    /\ commands = <<>>


\* the writes a countdown redraw can be, on any stream and at any time left
Redraws ==
    { renderInteractiveCountdown(st, formatRemainingTime(Milliseconds(t)), q)[1] :
        st \in [interactive : Booleans, supportsAdvanced : Booleans],
        q \in Booleans,
        t \in 1..MaxTime }

RedrawCount(out) == Cardinality({k \in 1..Len(out) : out[k] \in Redraws})

\* the lifecycle lines that end a run on a non-interactive status stream
LifecycleEnds == {"timer: complete\\n", "timer: cancelled\\n"}

\* C35: a countdown redraw is written only on an interactive status stream;
\* on a non-interactive one there is no ticker and no tick, and the output is
\* at most the started line followed by one complete or cancelled line.
C35_RedrawOnlyWhenInteractive ==
    /\ RedrawCount(output) > 0 => call.status.interactive
    /\ ~call.status.interactive =>
          /\ ~tickC
          /\ ~ENABLED TickerFires
          /\ \/ output = <<>>
             \/ output = << StartedLine >>
             \/ \E line \in LifecycleEnds :
                   output = << line >> \/ output = << StartedLine, line >>

\* a non-interactive run of two tick periods that wrote its two lines only
C35_Witness ==
    /\ ~call.status.interactive
    /\ ~call.quiet
    /\ call.duration >= 2 * TickInterval
    /\ state = "Completed"
    /\ output = << StartedLine, "timer: complete\\n" >>


\* the clocks a countdown can show
Clocks == {formatRemainingTime(Milliseconds(t)) : t \in 1..MaxTime}

\* a title-bar update with the redraw of the line, a redraw after a line
\* clear, and a redraw after a carriage return
TitleWrites == {"\\033]0;" \o c \o "\\007\\r\\033[K" \o c : c \in Clocks}

ClearWrites == {"\\r\\033[K" \o c : c \in Clocks}

PlainWrites == {"\\r" \o c : c \in Clocks}

\* the kind of redraw C36 expects of the run
ExpectedRedraws ==
    IF ~call.status.supportsAdvanced THEN PlainWrites
    ELSE IF call.quiet THEN ClearWrites
    ELSE TitleWrites

\* C36: a title-bar update is written only on an interactive status stream
\* with advanced control and quiet off; every redraw of a run is of the kind
\* its terminal and quiet select, a plain carriage-return redraw without
\* advanced control; and a tick received with time remaining on an
\* interactive stream writes one such redraw, in quiet mode too, while a
\* tick with no time remaining writes nothing.
C36_TitleOnlyWhenAdvancedAndLoud ==
    /\ [](\A k \in 1..Len(output) :
            /\ output[k] \in TitleWrites =>
                  /\ call.status.interactive
                  /\ call.status.supportsAdvanced
                  /\ ~call.quiet
            /\ output[k] \in Redraws => output[k] \in ExpectedRedraws)
    /\ [][(state = "Counting" /\ tickC /\ ~tickC') =>
            IF call.status.interactive /\ call.duration - now > 0
            THEN \E w \in ExpectedRedraws : output' = Append(output, w)
            ELSE output' = output]_vars

\* a quiet run on an advanced terminal that redrew its line without a title
C36_Witness ==
    /\ call.status.interactive
    /\ call.status.supportsAdvanced
    /\ call.quiet
    /\ output # <<>>
    /\ output[1] \in ClearWrites


\* the inhibitor was asked for and its Start returned an error
StartFailed ==
    /\ state # "Starting"
    /\ inhibitor.starts = 1
    /\ sleepInhibitor = "nil"

\* what a run writes at its entry, at a tick and at its end, and whether it
\* starts the alarm, read off the streams, quiet, forceAlarm, the duration,
\* the context and the clock alone
ExpectedStart ==
    IF ~call.status.interactive /\ ~call.quiet /\ ctxCause = "none"
    THEN << StartedLine >> ELSE <<>>

ExpectedRedraw ==
    LET c == formatRemainingTime(Milliseconds(call.duration - now))
    IN  IF ~call.status.supportsAdvanced THEN "\\r" \o c
        ELSE IF call.quiet THEN "\\r\\033[K" \o c
        ELSE "\\033]0;" \o c \o "\\007\\r\\033[K" \o c

AlarmExpected ==
    call.forceAlarm
    \/ (call.sideEffectsInteractive /\ call.status.interactive /\ ~call.quiet)

\* C37: an inhibitor that failed to start is never killed or waited for and
\* leaves the run with the nil inhibitor of a run that asked for none; from
\* there on the steps the run can take and what each does to the state, the
\* output, the alarm and the return value are given by expressions that
\* read neither the inhibitor nor what decides the request (the platform,
\* forceAwake), so the run is the one a call without the request makes.
C37_FailedStartIsInvisible ==
    /\ [](StartFailed => inhibitor.kills = 0 /\ inhibitor.waits = 0)
    /\ [][StartFailed => StartFailed']_vars
    /\ [](/\ ENABLED TimerEntry <=> state = "Starting"
          /\ ENABLED SelectDone <=> (state = "Counting" /\ doneC)
          /\ ENABLED SelectCancelled <=> (state = "Counting" /\ ctxCause # "none")
          /\ ENABLED SelectTick <=> (state = "Counting" /\ tickC)
          /\ ENABLED TickerFires <=>
                (state = "Counting" /\ call.status.interactive /\ now >= nextTick)
          /\ ENABLED DeadlineFires <=>
                (state = "Counting" /\ ~doneC /\ now >= call.duration))
    /\ [][ /\ state = "Starting" =>
               /\ state' = "Counting"
               /\ output' = output \o ExpectedStart
               /\ alarmCalls' = alarmCalls
               /\ ret' = "pending"
           /\ (state = "Counting" /\ state' = "Completed") =>
               /\ doneC
               /\ output' = output \o ExpectedClear \o ExpectedText("complete")
               /\ alarmCalls' = alarmCalls + (IF AlarmExpected THEN 1 ELSE 0)
               /\ ret' = "nil"
           /\ (state = "Counting" /\ state' = "Cancelled") =>
               /\ ctxCause # "none"
               /\ output' = output \o ExpectedClear \o ExpectedText("cancelled")
               /\ alarmCalls' = alarmCalls
               /\ ret' = ctxCause
           /\ (state = "Counting" /\ state' = "Counting") =>
               /\ alarmCalls' = alarmCalls
               /\ ret' = ret
               /\ output' =
                    IF tickC /\ ~tickC' /\ call.status.interactive
                       /\ call.duration - now > 0
                    THEN Append(output, ExpectedRedraw)
                    ELSE output
           /\ Terminal => UNCHANGED <<state, output, alarmCalls, ret>>
         ]_vars

\* a run whose inhibitor did not start and that completed with its alarm
C37_Witness ==
    /\ StartFailed
    /\ state = "Completed"
    /\ inhibitor = [starts |-> 1, kills |-> 0, waits |-> 0]
    /\ alarmCalls = 1
    /\ ret = "nil"
    /\ output # <<>>


\* the backend lists a worker can resolve
ResolvedLists ==
    {resolveAlarmCommands(goos, found) :
        goos \in {"darwin", "linux"}, found \in SUBSET BackendNames}

\* C38: the command line a completed timer spawns is a worker invocation; a
\* process with that command line is never parsed, runs no timer, writes
\* nothing and spawns no worker; all it runs is playAlarmAttempts, on a
\* resolved backend list with 4 attempts and 100 ms, and it exits with 0 once
\* that has returned.  An ordinary process plays nothing itself and spawns a
\* worker at most once, in the step that completes its timer.
C38_WorkerOnlyPlays ==
    /\ [](shouldRunInternalAlarm(newInternalAlarmCmd(ProgramName)))
    /\ [](IsWorkerInvocation =>
            /\ mpc \in {"start", "worker", "exited"}
            /\ pc = "idle"
            /\ state = "idle" /\ output = <<>> /\ ret = "pending"
            /\ worker = "none" /\ alarmCalls = 0
            /\ apc # "idle" =>
                  /\ alarm.attempts = 4
                  /\ interval = 100
                  /\ alarm.commands \in ResolvedLists
            /\ mpc = "exited" => apc = "returned" /\ exitCode = 0)
    /\ [](~IsWorkerInvocation => apc = "idle" /\ calls = <<>> /\ alarmCalls <= 1)
    /\ [][(worker = "none" /\ worker' # "none") =>
            state = "Counting" /\ state' = "Completed" /\ alarmCalls' = 1]_vars
    /\ [][worker # "none" =>
            worker' = worker \/ (worker = "running" /\ worker' # "none")]_vars

\* a worker whose first backend failed, which played the second four times
\* and exited
C38_Witness ==
    /\ osArgs = newInternalAlarmCmd(ProgramName)
    /\ mpc = "exited"
    /\ alarm.commands = << "canberra-gtk-play", "timeout" >>
    /\ Len(calls) = 5
    /\ calls[1].err
    /\ Cardinality(Successes) = 4
    /\ sleeps = 4

====
